---- MODULE Spec2Model ----
(***************************************************************************)
(* Model of the scrape -> AI-process -> generate pipeline of               *)
(* paris-entrepreneurship-kb (src/scraper.py, src/ai_processor.py,         *)
(* src/content_generator.py, src/article_scraper.py).                      *)
(*                                                                         *)
(* Strings are modelled as run-length encoded sequences of character       *)
(* classes, so that the program's real length constants (1000, 4000, 500,  *)
(* 150) are kept:                                                          *)
(*   "zh"  a character in U+4E00..U+9FFF                                   *)
(*   "lat" any other ordinary character                                    *)
(*   "dot" the character '.'                                               *)
(*   "mk"  one of the Markdown markers # * ` [ ] ( )                       *)
(*   "ws"  whitespace other than a line feed                               *)
(*   "nl"  the line feed                                                   *)
(*   "hy"  the hyphen                                                      *)
(*   "dg"  a decimal digit, where digits matter (dates)                    *)
(* "lat" and "zh" are word characters (\w); "dot" and "mk" are neither     *)
(* word characters nor whitespace nor hyphens.                             *)
(***************************************************************************)
EXTENDS Integers, Sequences, FiniteSets, TLC

VARIABLES
    text,           \* _is_chinese: the argument
    is_zh,          \* _is_chinese: <<>> before the call, <<value returned>> after it
    ex_content,     \* _generate_excerpt: the argument content
    excerpt,        \* _generate_excerpt: <<>> before the call, <<value returned>> after it
    tg_article,     \* _extract_tags: the argument article
    tg_before,      \* _extract_tags: the article as it was when the last call began
    tags_out,       \* _extract_tags: the lists returned by the calls made so far
    output_dir,     \* the output directory: whether it exists, and its files by name
    dir_before,     \* _get_next_id: the directory as it was when the call began
    next_id,        \* _get_next_id: <<>> before the call, <<value returned>> after it
    url,            \* fetch_page: the argument url
    retry,          \* fetch_page: the argument retry
    f_attempt,      \* fetch_page: the loop variable attempt
    f_pc,           \* fetch_page: "loop" at the head of the for loop, "done" after return
    gets,           \* fetch_page: the GET requests issued, with the outcome of each
    f_sleeps,       \* fetch_page: the arguments of the time.sleep calls, in order
    f_result,       \* fetch_page: <<>>, then <<"soup">>, <<"None">> or <<"raised">>
    api_stage,      \* _call_api: who called ("top", "extract", "rewrite", "title", "body")
    api_prompt,     \* _call_api: the text the caller put in user_prompt
    temperature,    \* _call_api: the argument temperature, in tenths
    max_retries,    \* _call_api: the argument max_retries
    attempt,        \* _call_api: the loop variable attempt
    api_pc,         \* _call_api: "idle", "loop" at the head of the for loop, "done"
    api_log,        \* _call_api: the outcome of each provider call of this call
    api_result,     \* _call_api: <<>>, then <<[kind, text, err]>>: returned or raised
    calls,          \* the provider calls made so far: stage, prompt text, temperature
    sleeps,         \* the arguments of _call_api's time.sleep calls, in order
    article,        \* process_article: the article dict (Unset: the key is absent)
    skip_translation, \* process_article: the argument skip_translation
    pc,             \* process_article: where it is ("idle" .. "done")
    key_points,     \* extract_and_rewrite: the local key_points
    tr_content,     \* translate_to_chinese: the local content
    articles,       \* scrape_by_category: the list scrape_category returned
    done_count,     \* scrape_by_category: the iterations of the loop completed
    processed_articles, \* scrape_by_category: the list being built
    failed,         \* scrape_by_category: the iterations whose process_article raised
    sb_pc,          \* scrape_by_category: "idle", "loop", "returned"
    fn_article,     \* save_article: the article whose filename is made
    fn_now,         \* save_article: datetime.now(), as [y, m, d]
    fn_out,         \* save_article: <<>> before, <<the filename>> after
    sv_dir,         \* save_articles: the output directory
    sv_articles,    \* save_articles: the argument articles
    sv_now,         \* save_articles: the day datetime.now() last gave
    filepaths,      \* save_articles: the list filepaths
    sv_log,         \* save_articles: what each iteration of the loop did
    sv_pc,          \* save_articles: "idle", "loop", "returned"
    m_env,          \* main: the command line, the config file, the environment, the interpreter
    m_pc,           \* main: where the run is ("idle", "start" .. "exited")
    m_events,       \* main: the page fetches and LLM calls made so far
    exit_status,    \* main: <<>> while running, <<the exit status of the process>> after
    ln_site,        \* extract_article_links: what the selector matches on each listing page
    ln_max_pages,   \* extract_article_links: the argument max_pages
    ln_page,        \* extract_article_links: the loop variable page
    ln_fetches,     \* extract_article_links: the fetch_page calls made, with their result
    ln_articles,    \* extract_article_links: the list articles
    ln_sleeps,      \* extract_article_links: the arguments of its time.sleep calls
    ln_pc,          \* extract_article_links: "idle", "loop", "returned"
    ec_page,        \* extract_article_content: what each selector matches on the article page
    ec_selectors,   \* extract_article_content: author_selector and date_selector
    article_data,   \* extract_article_content: the value returned
    ec_pc,          \* extract_article_content: "idle", "called", "returned", "raised"
    rc_dir,         \* two emitters: the output directory they share
    rc_articles,    \* two emitters: the article each one saves
    rc_pc,          \* two emitters: where each one is in save_article: "scan", "write", "done"
    rc_id,          \* two emitters: article_id in each one (0: not assigned yet)
    rc_written,     \* two emitters: the markdown each one has written (<<>>: none yet)
    rc_trace        \* two emitters: the steps taken so far, in order

textVars == <<text, is_zh>>
excerptVars == <<ex_content, excerpt>>
tagVars == <<tg_article, tg_before, tags_out>>
idVars == <<output_dir, dir_before, next_id>>
fetchVars == <<url, retry, f_attempt, f_pc, gets, f_sleeps, f_result>>
vars == <<text, is_zh, ex_content, excerpt, tg_article, tg_before, tags_out,
          output_dir, dir_before, next_id,
          url, retry, f_attempt, f_pc, gets, f_sleeps, f_result,
          api_stage, api_prompt, temperature, max_retries, attempt, api_pc, api_log,
          api_result, calls, sleeps,
          article, skip_translation, pc, key_points, tr_content,
          articles, done_count, processed_articles, failed, sb_pc,
          fn_article, fn_now, fn_out,
          sv_dir, sv_articles, sv_now, filepaths, sv_log, sv_pc,
          m_env, m_pc, m_events, exit_status,
          ln_site, ln_max_pages, ln_page, ln_fetches, ln_articles, ln_sleeps, ln_pc,
          ec_page, ec_selectors, article_data, ec_pc,
          rc_dir, rc_articles, rc_pc, rc_id, rc_written, rc_trace>>
nameVars == <<fn_article, fn_now, fn_out>>
saveVars == <<sv_dir, sv_articles, sv_now, filepaths, sv_log, sv_pc>>
mainVars == <<m_env, m_pc, m_events, exit_status>>
linkVars == <<ln_site, ln_max_pages, ln_page, ln_fetches, ln_articles, ln_sleeps, ln_pc>>
contentVars == <<ec_page, ec_selectors, article_data, ec_pc>>
raceVars == <<rc_dir, rc_articles, rc_pc, rc_id, rc_written, rc_trace>>
\* the components added after the first eight
otherVars == <<nameVars, saveVars, mainVars, linkVars, contentVars, raceVars>>
batchVars == <<articles, done_count, processed_articles, failed, sb_pc>>
procVars == <<article, skip_translation, pc, key_points, tr_content>>
apiVars == <<api_stage, api_prompt, temperature, max_retries, attempt, api_pc, api_log,
             api_result, calls, sleeps>>

\* The state of a component that a specification does not exercise.
TextIdle == text = <<>> /\ is_zh = <<>>
ExcerptIdle == ex_content = <<>> /\ excerpt = <<>>
TagsIdle == tg_article = <<>> /\ tg_before = <<>> /\ tags_out = <<>>
DirIdle == output_dir = <<>> /\ dir_before = <<>> /\ next_id = <<>>
FetchIdle ==
    /\ url = "" /\ retry = 0 /\ f_attempt = 0 /\ f_pc = "idle"
    /\ gets = <<>> /\ f_sleeps = <<>> /\ f_result = <<>>
ApiIdle ==
    /\ api_stage = "" /\ api_prompt = <<>> /\ temperature = 0 /\ max_retries = 0
    /\ attempt = 0 /\ api_pc = "idle" /\ api_log = <<>> /\ api_result = <<>>
    /\ calls = <<>> /\ sleeps = <<>>
ProcIdle ==
    /\ article = <<>> /\ skip_translation = FALSE /\ pc = "idle"
    /\ key_points = <<>> /\ tr_content = <<>>
BatchIdle ==
    /\ articles = <<>> /\ done_count = 0 /\ processed_articles = <<>> /\ failed = {}
    /\ sb_pc = "idle"
NameIdle == fn_article = <<>> /\ fn_now = <<>> /\ fn_out = <<>>
SaveIdle ==
    /\ sv_dir = <<>> /\ sv_articles = <<>> /\ sv_now = <<>> /\ filepaths = <<>>
    /\ sv_log = <<>> /\ sv_pc = "idle"
MainIdle ==
    /\ m_env = <<>> /\ m_pc = "idle" /\ m_events = <<>> /\ exit_status = <<>>
LinksIdle ==
    /\ ln_site = <<>> /\ ln_max_pages = 0 /\ ln_page = 0 /\ ln_fetches = <<>> /\ ln_articles = <<>> /\ ln_sleeps = <<>> /\ ln_pc = "idle"
ContentIdle ==
    /\ ec_page = <<>> /\ ec_selectors = <<>> /\ article_data = <<>> /\ ec_pc = "idle"
RaceIdle ==
    /\ rc_dir = <<>> /\ rc_articles = <<>> /\ rc_pc = <<>> /\ rc_id = <<>> /\ rc_written = <<>> /\ rc_trace = <<>>
\* every component but k is not exercised
FirstIdle ==
    /\ TextIdle /\ ExcerptIdle /\ TagsIdle /\ DirIdle /\ FetchIdle /\ ApiIdle /\ ProcIdle
    /\ BatchIdle
RestIdle(k) ==
    /\ IF k = "name" THEN TRUE ELSE NameIdle
    /\ IF k = "save" THEN TRUE ELSE SaveIdle
    /\ IF k = "main" THEN TRUE ELSE MainIdle
    /\ IF k = "links" THEN TRUE ELSE LinksIdle
    /\ IF k = "content" THEN TRUE ELSE ContentIdle
    /\ IF k = "race" THEN TRUE ELSE RaceIdle
OthersIdle == RestIdle("")
\* every component but k is left as it is
FirstUnchanged ==
    UNCHANGED <<textVars, excerptVars, tagVars, idVars, fetchVars, apiVars, procVars,
                batchVars>>
RestUnchanged(k) ==
    /\ IF k = "name" THEN TRUE ELSE UNCHANGED nameVars
    /\ IF k = "save" THEN TRUE ELSE UNCHANGED saveVars
    /\ IF k = "main" THEN TRUE ELSE UNCHANGED mainVars
    /\ IF k = "links" THEN TRUE ELSE UNCHANGED linkVars
    /\ IF k = "content" THEN TRUE ELSE UNCHANGED contentVars
    /\ IF k = "race" THEN TRUE ELSE UNCHANGED raceVars

(***************************************************************************)
(* Strings                                                                 *)
(***************************************************************************)
Run(c, n) == [c |-> c, n |-> n]

Whitespace == {"ws", "nl"}
NonWhitespace == {"zh", "lat", "dot", "mk", "hy", "dg"}

Min(a, b) == IF a <= b THEN a ELSE b

RECURSIVE TLen(_)
\* len(s)
TLen(s) == IF s = <<>> THEN 0 ELSE Head(s).n + TLen(Tail(s))

RECURSIVE Take(_, _)
\* s[:k]
Take(s, k) ==
    IF s = <<>> \/ k = 0 THEN <<>>
    ELSE IF Head(s).n <= k THEN <<Head(s)>> \o Take(Tail(s), k - Head(s).n)
    ELSE <<Run(Head(s).c, k)>>

RECURSIVE Count(_, _)
\* the number of characters of s whose class is in S
Count(s, S) ==
    IF s = <<>> THEN 0
    ELSE (IF Head(s).c \in S THEN Head(s).n ELSE 0) + Count(Tail(s), S)

RECURSIVE Without(_, _)
\* s with the characters whose class is in S removed
Without(s, S) ==
    IF s = <<>> THEN <<>>
    ELSE IF Head(s).c \in S THEN Without(Tail(s), S)
    ELSE <<Head(s)>> \o Without(Tail(s), S)

RECURSIVE Norm(_)
\* the canonical encoding of s: no empty run, no two adjacent runs of one class
Norm(s) ==
    IF s = <<>> THEN <<>>
    ELSE IF Head(s).n = 0 THEN Norm(Tail(s))
    ELSE LET r == Norm(Tail(s)) IN
         IF r # <<>> /\ Head(r).c = Head(s).c
         THEN <<Run(Head(s).c, Head(s).n + Head(r).n)>> \o Tail(r)
         ELSE <<Head(s)>> \o r

RECURSIVE CharAt(_, _)
\* the class of the i-th character of s (1-based), "none" past the end
CharAt(s, i) ==
    IF s = <<>> THEN "none"
    ELSE IF i <= Head(s).n THEN Head(s).c
    ELSE CharAt(Tail(s), i - Head(s).n)

RECURSIVE StripLeft(_)
StripLeft(s) ==
    IF s = <<>> THEN <<>>
    ELSE IF Head(s).c \in Whitespace THEN StripLeft(Tail(s))
    ELSE s

RECURSIVE StripRight(_)
StripRight(s) ==
    IF s = <<>> THEN <<>>
    ELSE IF s[Len(s)].c \in Whitespace THEN StripRight(SubSeq(s, 1, Len(s) - 1))
    ELSE s

\* s.strip()
Strip(s) == StripRight(StripLeft(s))

RECURSIVE SplitFrom(_, _)
\* the lines of cur + s, cur being the line read so far
SplitFrom(s, cur) ==
    IF s = <<>> THEN <<cur>>
    ELSE IF Head(s).c = "nl"
         THEN <<cur>> \o [i \in 1..(Head(s).n - 1) |-> <<>>] \o SplitFrom(Tail(s), <<>>)
    ELSE SplitFrom(Tail(s), Append(cur, Head(s)))

\* s.split('\n')
SplitLines(s) == SplitFrom(s, <<>>)

\* the characters of s, one element each
Expand(s) == [i \in 1..TLen(s) |-> CharAt(s, i)]

\* seq[:k] of a list
Take1(seq, k) == SubSeq(seq, 1, Min(Len(seq), k))

RECURSIVE SeqsUpTo(_, _)
\* the sequences over S of length at most k
SeqsUpTo(S, k) ==
    IF k = 0 THEN {<<>>}
    ELSE LET shorter == SeqsUpTo(S, k - 1) IN
         shorter \cup {<<x>> \o s : x \in S, s \in {t \in shorter : Len(t) = k - 1}}

Canonical(s) == \A i \in 1..(Len(s) - 1) : s[i].c # s[i + 1].c

(***************************************************************************)
(* AIProcessor._is_chinese                                                 *)
(***************************************************************************)
ChineseWindow == 1000
MaxTextRuns == 3

ZhRuns == {Run(c, n) : c \in {"zh", "lat", "ws"}, n \in {1, 300, 700, 1000}}
ZhTexts == {s \in SeqsUpTo(ZhRuns, MaxTextRuns) : Canonical(s)}

\* the mutant: >= instead of >
_is_chinese_ge(t) ==
    IF t = <<>> THEN FALSE
    ELSE LET chinese_chars == Count(Take(t, ChineseWindow), {"zh"})
             total_chars == Count(Take(t, ChineseWindow), NonWhitespace)
         IN total_chars > 0 /\ chinese_chars * 10 >= 3 * total_chars

\* chinese_chars / total_chars > 0.3 is compared as 10 * chinese_chars >
\* 3 * total_chars: for total_chars <= 1000 the float quotient is the literal
\* 0.3 exactly when the ratio is 3/10 and differs from it by more than an ulp
\* otherwise.
_is_chinese(t) ==
    IF t = <<>> THEN FALSE
    ELSE LET chinese_chars == Count(Take(t, ChineseWindow), {"zh"})
             total_chars == Count(Take(t, ChineseWindow), NonWhitespace)
         IN total_chars > 0 /\ chinese_chars * 10 > 3 * total_chars


InitIsChinese == text \in ZhTexts /\ is_zh = <<>> /\ ExcerptIdle /\ TagsIdle /\ DirIdle /\ FetchIdle /\ ApiIdle /\ ProcIdle /\ BatchIdle /\ OthersIdle

CallIsChinese ==
    /\ is_zh = <<>>
    /\ is_zh' = <<_is_chinese(text)>>
    /\ UNCHANGED <<text, excerptVars, tagVars, idVars, fetchVars, apiVars, procVars, batchVars, otherVars>>

NextIsChinese == CallIsChinese

SpecIsChinese == InitIsChinese /\ [][NextIsChinese]_vars

\* The characters of the text, by position.
InWindow(t) == 1..Min(TLen(t), 1000)
ZhInWindow(t) == Cardinality({i \in InWindow(t) : CharAt(t, i) = "zh"})
NonWsInWindow(t) == Cardinality({i \in InWindow(t) : CharAt(t, i) \notin Whitespace})

\* The window the claim describes: the first 1000 non-whitespace characters.
FirstNonWs(t) == Take(Without(t, Whitespace), 1000)

\* C6 as stated: the text is classified Chinese exactly when more than 30% of
\* its first 1000 non-whitespace characters are in U+4E00..U+9FFF.
C6_AsStated ==
    is_zh # <<>> =>
        (is_zh[1] <=> (/\ TLen(FirstNonWs(text)) > 0
                    /\ 10 * Count(FirstNonWs(text), {"zh"}) > 3 * TLen(FirstNonWs(text))))

\* C6 (amended): the text is classified Chinese exactly when, among the
\* non-whitespace characters found in its first 1000 characters, more than 30%
\* are in U+4E00..U+9FFF; never at 0% or for the empty text, and never at
\* exactly 30%.
C6_IsChinese ==
    is_zh # <<>> =>
        /\ is_zh[1] <=> (/\ NonWsInWindow(text) > 0
                      /\ 10 * ZhInWindow(text) > 3 * NonWsInWindow(text))
        /\ ZhInWindow(text) = 0 => is_zh[1] = FALSE
        /\ 10 * ZhInWindow(text) = 3 * NonWsInWindow(text) => is_zh[1] = FALSE

\* a text at exactly 30% (300 of 1000) has been classified
C6_Witness ==
    /\ is_zh # <<>>
    /\ NonWsInWindow(text) = 1000
    /\ ZhInWindow(text) = 300

(***************************************************************************)
(* ContentGenerator._generate_excerpt                                      *)
(***************************************************************************)
max_length == 150
MaxExcerptRuns == 4

Ellipsis == <<Run("dot", 3)>>

ExcerptRuns ==
    {Run("lat", n) : n \in {1, 149, 150, 151}} \cup {Run(c, 1) : c \in {"ws", "nl", "mk"}}
ExcerptTexts == {s \in SeqsUpTo(ExcerptRuns, MaxExcerptRuns) : Canonical(s)}

\* the mutant: the markers are removed after the first line is taken and cut
_generate_excerpt_late_strip(content) ==
    LET lines == SelectSeq([i \in 1..Len(SplitLines(content)) |->
                               Strip(SplitLines(content)[i])],
                           LAMBDA line : line # <<>>)
    IN IF lines # <<>>
       THEN IF TLen(lines[1]) > max_length
            THEN Without(Take(lines[1], max_length), {"mk"}) \o Ellipsis
            ELSE Without(lines[1], {"mk"})
       ELSE <<>>

_generate_excerpt(content) ==
    LET txt == Without(content, {"mk"})
        lines == SelectSeq([i \in 1..Len(SplitLines(txt)) |-> Strip(SplitLines(txt)[i])],
                           LAMBDA line : line # <<>>)
    IN IF lines # <<>>
       THEN IF TLen(lines[1]) > max_length
            THEN Take(lines[1], max_length) \o Ellipsis
            ELSE lines[1]
       ELSE <<>>

InitExcerpt ==
    ex_content \in ExcerptTexts /\ excerpt = <<>> /\ TextIdle /\ TagsIdle /\ DirIdle /\ FetchIdle /\ ApiIdle /\ ProcIdle /\ BatchIdle /\ OthersIdle

CallGenerateExcerpt ==
    /\ excerpt = <<>>
    /\ excerpt' = <<_generate_excerpt(ex_content)>>
    /\ UNCHANGED <<ex_content, textVars, tagVars, idVars, fetchVars, apiVars, procVars, batchVars, otherVars>>

NextExcerpt == CallGenerateExcerpt

SpecExcerpt == InitExcerpt /\ [][NextExcerpt]_vars

\* The content's characters without the markers, by position.
Kept(c) == SelectSeq(Expand(c), LAMBDA x : x # "mk")
\* the positions of the first non-blank line, trimmed: from the first
\* non-whitespace character to the last one before the next line feed
FirstInk(k) == {i \in 1..Len(k) : k[i] \notin Whitespace /\ \A j \in 1..(i - 1) : k[j] \in Whitespace}
LineOf(k, first) ==
    {i \in first..Len(k) :
        /\ \A j \in first..i : k[j] # "nl"
        /\ \E j \in i..Len(k) : k[j] \notin Whitespace /\ \A m \in i..j : k[m] # "nl"}
FirstLine(c) ==
    LET k == Kept(c) IN
    IF FirstInk(k) = {} THEN <<>>
    ELSE LET first == CHOOSE i \in FirstInk(k) : TRUE
         IN SubSeq(k, first, first + Cardinality(LineOf(k, first)) - 1)

\* C9: the excerpt has at most 153 characters, none of them a Markdown
\* marker; it is the first non-blank line of the content without its markers
\* (trimmed), cut to 150 characters plus "..." only when that line is longer
\* than 150, and the empty string when there is no non-blank line.
C9_Excerpt ==
    excerpt # <<>> =>
        LET out == Expand(excerpt[1])
            line == FirstLine(ex_content)
        IN /\ Len(out) <= 153
           /\ \A i \in 1..Len(out) : out[i] # "mk"
           /\ out = IF Len(line) > 150
                    THEN SubSeq(line, 1, 150) \o <<"dot", "dot", "dot">>
                    ELSE line

\* a first line of more than 150 characters, after a blank line and a marker,
\* was cut
C9_Witness ==
    /\ excerpt # <<>>
    /\ TLen(excerpt[1]) = 153
    /\ Count(ex_content, {"mk"}) > 0
    /\ Head(ex_content).c \in {"nl", "ws"}

(***************************************************************************)
(* ContentGenerator._extract_tags                                          *)
(*                                                                         *)
(* A body is modelled by whether it is empty and by the set of the table's *)
(* keywords that occur in it (keyword in content); an absent field reads   *)
(* as the empty string, as article.get(..., '') does.  The tags and the    *)
(* keywords are transliterated:                                            *)
(*   rongzi = U+878D U+8D44, touzi, tianshilun, A_lun; rengongzhineng,     *)
(*   jiqixuexi; dianshang, kuajing; chuangshiren; tuanduiguanli, tuandui,  *)
(*   zhaopin, guanli; chanpin.                                             *)
(***************************************************************************)
MaxTags == 5

keywords == <<
    [tag |-> "rongzi", list |-> {"rongzi", "touzi", "VC", "tianshilun", "A_lun"}],
    [tag |-> "SaaS", list |-> {"SaaS", "Software as a Service"}],
    [tag |-> "rengongzhineng", list |-> {"AI", "rengongzhineng", "jiqixuexi", "ML"}],
    [tag |-> "dianshang", list |-> {"dianshang", "e-commerce", "kuajing"}],
    [tag |-> "chuangshiren", list |-> {"chuangshiren", "CEO", "founder"}],
    [tag |-> "tuanduiguanli", list |-> {"tuandui", "zhaopin", "guanli"}],
    [tag |-> "chanpin", list |-> {"chanpin", "PMF", "product-market fit"}] >>

EmptyBody == [nonempty |-> FALSE, has |-> {}]
Body(has) == [nonempty |-> TRUE, has |-> has]

\* the keywords the modelled bodies draw from: one of each theme, two of the first
KeywordSample == {"touzi", "VC", "SaaS", "AI", "kuajing", "CEO", "zhaopin", "PMF"}
Categories == {"", "Funding", "rongzi", "chanpin"}
TagArticles ==
    [category : Categories,
     content_zh : {EmptyBody} \cup {Body(h) : h \in SUBSET KeywordSample},
     content : {EmptyBody, Body({}), Body({"VC", "PMF"})}]

Contains(seq, x) == \E i \in 1..Len(seq) : seq[i] = x

RECURSIVE ScanKeywords(_, _, _)
\* for tag, keywords_list in keywords.items(): ... from entry i on
ScanKeywords(i, content, tags) ==
    IF i > Len(keywords) THEN tags
    ELSE IF keywords[i].list \cap content.has # {} /\ ~Contains(tags, keywords[i].tag)
         THEN ScanKeywords(i + 1, content, Append(tags, keywords[i].tag))
    ELSE ScanKeywords(i + 1, content, tags)

\* the mutant: the list is returned whole
_extract_tags_uncapped(art) ==
    LET tags == IF art.category # "" THEN <<art.category>> ELSE <<>>
        content == IF art.content_zh.nonempty THEN art.content_zh
                   ELSE art.content
    IN ScanKeywords(1, content, tags)

_extract_tags(art) ==
    LET tags == IF art.category # "" THEN <<art.category>> ELSE <<>>
        content == IF art.content_zh.nonempty THEN art.content_zh
                   ELSE art.content
    IN Take1(ScanKeywords(1, content, tags), MaxTags)

InitTags ==
    /\ tg_article \in TagArticles
    /\ tg_before = <<>>
    /\ tags_out = <<>>
    /\ TextIdle /\ ExcerptIdle /\ DirIdle /\ FetchIdle /\ ApiIdle /\ ProcIdle /\ BatchIdle /\ OthersIdle

\* one call of _extract_tags on the article; it only reads the article
CallExtractTags ==
    /\ Len(tags_out) < 2
    /\ tg_before' = <<tg_article>>
    /\ tags_out' = Append(tags_out, _extract_tags(tg_article))
    /\ UNCHANGED <<tg_article, textVars, excerptVars, idVars, fetchVars, apiVars, procVars, batchVars, otherVars>>

NextTags == CallExtractTags

SpecTags == InitTags /\ [][NextTags]_vars

IsTheme(tag) == \E i \in 1..Len(keywords) : keywords[i].tag = tag
ThemeNo(tag) == CHOOSE i \in 1..Len(keywords) : keywords[i].tag = tag

\* C8: a second call returns the same list as the first and the article is
\* as it was before each call; a list has at most 5 tags, none twice, starts
\* with the category whenever the article has one, and its other tags are
\* themes of the keyword table, in table order.
C8_Tags ==
    /\ tg_before # <<>> => tg_before[1] = tg_article
    /\ Len(tags_out) = 2 => tags_out[1] = tags_out[2]
    /\ \A k \in 1..Len(tags_out) :
        LET r == tags_out[k]
            from == IF tg_article.category # "" THEN 2 ELSE 1
        IN /\ Len(r) <= 5
           /\ tg_article.category # "" => Len(r) >= 1 /\ r[1] = tg_article.category
           /\ \A i, j \in 1..Len(r) : i # j => r[i] # r[j]
           /\ \A i \in from..Len(r) : IsTheme(r[i])
           /\ \A i, j \in from..Len(r) : i < j => ThemeNo(r[i]) < ThemeNo(r[j])

\* two calls were made on an article with a category whose body matches more
\* themes than fit
C8_Witness ==
    /\ Len(tags_out) = 2
    /\ tg_article.category = "Funding"
    /\ Len(tags_out[2]) = 5
    /\ Cardinality(tg_article.content_zh.has) >= 7

(***************************************************************************)
(* ContentGenerator._get_next_id                                           *)
(*                                                                         *)
(* A file is its lines: the delimiter "---", a line "id: <digits>" (what   *)
(* ^id:\s*(\d+) matches), or any other line.  A file that cannot be read  *)
(* makes open()/read() raise.                                              *)
(***************************************************************************)
Delim == [k |-> "delim", v |-> 0]
Other == [k |-> "other", v |-> 0]
IdLine(n) == [k |-> "id", v |-> n]

Absent == [present |-> FALSE, readable |-> FALSE, lines |-> <<>>]
File(readable, lines) == [present |-> TRUE, readable |-> readable, lines |-> lines]

\* a document with a metadata block, with or without an id in it, and a body,
\* with or without a line that starts with "id: <digits>"
Document(meta_id, body_id) ==
    <<Delim>> \o (IF meta_id > 0 THEN <<IdLine(meta_id)>> ELSE <<>>) \o <<Other, Delim, Other>>
        \o (IF body_id > 0 THEN <<IdLine(body_id)>> ELSE <<>>)

\* a file name: its characters, and the day its digits spell when it begins
\* with a date (NoDay when it does not)
NoDay == [y |-> 0, m |-> 0, d |-> 0]
FileName(day, chars) == [day |-> day, chars |-> chars]
\* a.md, bb.md, ccc.md
MdNames == {FileName(NoDay, <<Run("lat", n), Run("dot", 1), Run("lat", 2)>>) : n \in 1..3}
\* notes.txt
OtherNames == {FileName(NoDay, <<Run("lat", 5), Run("dot", 1), Run("lat", 3)>>)}
FileNames == MdNames \cup OtherNames
\* the name ends with a dot and two letters (names are in canonical encoding)
endswith_md(filename) ==
    /\ Len(filename.chars) >= 2
    /\ filename.chars[Len(filename.chars)] = Run("lat", 2)
    /\ filename.chars[Len(filename.chars) - 1].c = "dot"

DocIds == {2, 3, 7}
DocContents ==
    {Document(m, b) : m \in DocIds \cup {0}, b \in {0, 9}} \cup {<<Other>>}
MdFiles ==
    {Absent, File(FALSE, Document(9, 0))} \cup {File(TRUE, c) : c \in DocContents}
OtherFiles == {Absent, File(TRUE, Document(9, 0))}
Directories ==
    {[exists |-> FALSE, files |-> [f \in FileNames |-> Absent]]}
    \cup {[exists |-> TRUE, files |-> fs] :
            fs \in {g \in [FileNames -> MdFiles \cup OtherFiles] :
                        /\ \A f \in MdNames : g[f] \in MdFiles
                        /\ \A f \in OtherNames : g[f] \in OtherFiles}}

RECURSIVE SearchId(_)
\* re.search(r'^id:\s*(\d+)', content, re.MULTILINE): the first matching line's
\* number, 0 when no line matches
SearchId(lines) ==
    IF lines = <<>> THEN 0
    ELSE IF Head(lines).k = "id" THEN Head(lines).v
    ELSE SearchId(Tail(lines))

Max(a, b) == IF a >= b THEN a ELSE b

RECURSIVE ScanFiles(_, _, _)
\* for filename in os.listdir(output_dir): ... over the names left, in any order
ScanFiles(d, names, max_id) ==
    IF names = {} THEN max_id
    ELSE LET filename == CHOOSE f \in names : TRUE
             file == d.files[filename]
             found == IF file.present /\ endswith_md(filename) /\ file.readable
                      THEN SearchId(file.lines) ELSE 0
         IN ScanFiles(d, names \ {filename}, Max(max_id, found))

_get_next_id(d) ==
    IF ~d.exists THEN 1
    ELSE ScanFiles(d, DOMAIN d.files, 0) + 1

InitNextId ==
    /\ output_dir \in Directories
    /\ dir_before = <<>>
    /\ next_id = <<>>
    /\ TextIdle /\ ExcerptIdle /\ TagsIdle /\ FetchIdle /\ ApiIdle /\ ProcIdle /\ BatchIdle /\ OthersIdle

\* one call of _get_next_id; it opens the files for reading only
CallGetNextId ==
    /\ next_id = <<>>
    /\ dir_before' = <<output_dir>>
    /\ next_id' = <<_get_next_id(output_dir)>>
    /\ UNCHANGED <<output_dir, textVars, excerptVars, tagVars, fetchVars, apiVars, procVars, batchVars, otherVars>>

NextNextId == CallGetNextId

SpecNextId == InitNextId /\ [][NextNextId]_vars

\* The ids in a document's metadata: the id lines between a delimiter on the
\* first line and the next delimiter.
MetaIds(lines) ==
    IF lines = <<>> \/ lines[1] # Delim THEN {}
    ELSE {lines[i].v : i \in {j \in 2..Len(lines) :
                                /\ lines[j].k = "id"
                                /\ \A m \in 2..j : lines[m] # Delim}}
SetMax(S) == IF S = {} THEN 0 ELSE CHOOSE x \in S : \A y \in S : y <= x
DirMetaIds(d) ==
    UNION {MetaIds(d.files[f].lines) :
            f \in {g \in MdNames : d.files[g].present /\ d.files[g].readable}}

\* C10: the id returned is 1 + the highest id found in the metadata of the
\* readable .md documents of the directory (1 when there is none), and the
\* scan leaves the directory as it was.
C10_NextId ==
    next_id # <<>> =>
        /\ next_id[1] = 1 + SetMax(DirMetaIds(output_dir))
        /\ dir_before[1] = output_dir

\* for documents whose only "id:" lines are in their metadata the id is as
\* claimed: ids {3, 7, 2} give 8
C10_Example ==
    /\ next_id # <<>>
    /\ DirMetaIds(output_dir) = {2, 3, 7}
    /\ next_id[1] = 8

(***************************************************************************)
(* WebScraper.fetch_page                                                   *)
(***************************************************************************)
MaxRetry == 3

Urls == {"https://site/cat", "https://site/cat?page=2"}
\* what makes an attempt fail: session.get raising (connection error or the
\* 30 s timeout), raise_for_status on a non-2xx status, the parser raising
GetFailures == {"exception", "timeout", "status"}

\* the mutant: the last failure is raised again, as _call_api does
fetch_except_reraise(a, n) ==
    IF a < n - 1 THEN "sleep" ELSE "raise"

\* except Exception: sleep and go on, or return None after the last attempt
fetch_except(a, n) ==
    IF a < n - 1 THEN "sleep" ELSE "return None"

InitFetch ==
    /\ url \in Urls
    /\ retry \in 0..MaxRetry
    /\ f_attempt = 0
    /\ f_pc = "loop"
    /\ gets = <<>>
    /\ f_sleeps = <<>>
    /\ f_result = <<>>
    /\ TextIdle /\ ExcerptIdle /\ TagsIdle /\ DirIdle /\ ApiIdle /\ ProcIdle /\ BatchIdle /\ OthersIdle

\* the attempt's GET succeeds with a 2xx status and the page parses
FetchAttemptSucceeds ==
    /\ f_pc = "loop" /\ f_attempt < retry
    /\ gets' = Append(gets, [url |-> url, outcome |-> "ok"])
    /\ f_result' = <<"soup">>
    /\ f_pc' = "done"
    /\ UNCHANGED <<url, retry, f_attempt, f_sleeps>>
    /\ UNCHANGED <<textVars, excerptVars, tagVars, idVars, apiVars, procVars, batchVars, otherVars>>

\* the attempt fails: the except branch
FetchAttemptFails ==
    /\ f_pc = "loop" /\ f_attempt < retry
    /\ \E failure \in GetFailures :
        gets' = Append(gets, [url |-> url, outcome |-> failure])
    /\ LET branch == fetch_except(f_attempt, retry) IN
        /\ f_sleeps' = IF branch = "sleep" THEN Append(f_sleeps, 2 ^ f_attempt) ELSE f_sleeps
        /\ f_attempt' = IF branch = "sleep" THEN f_attempt + 1 ELSE f_attempt
        /\ f_pc' = IF branch = "sleep" THEN "loop" ELSE "done"
        /\ f_result' = IF branch = "sleep" THEN <<>>
                       ELSE IF branch = "return None" THEN <<"None">>
                       ELSE <<"raised">>
    /\ UNCHANGED <<url, retry>>
    /\ UNCHANGED <<textVars, excerptVars, tagVars, idVars, apiVars, procVars, batchVars, otherVars>>

\* range(retry) is exhausted: the function falls off its end and returns None
FetchLoopEnds ==
    /\ f_pc = "loop" /\ f_attempt >= retry
    /\ f_result' = <<"None">>
    /\ f_pc' = "done"
    /\ UNCHANGED <<url, retry, f_attempt, gets, f_sleeps>>
    /\ UNCHANGED <<textVars, excerptVars, tagVars, idVars, apiVars, procVars, batchVars, otherVars>>

NextFetch == FetchAttemptSucceeds \/ FetchAttemptFails \/ FetchLoopEnds

SpecFetch == InitFetch /\ [][NextFetch]_vars

AllGetsFailed == \A i \in 1..Len(gets) : gets[i].outcome # "ok"

\* C1: fetch_page never raises; when it has returned and every GET failed,
\* it made exactly retry attempts (all on the url given), slept 1, 2, 4, ...
\* seconds between consecutive attempts and returned None.
C1_FetchFailure ==
    /\ f_result # <<"raised">>
    /\ (f_pc = "done" /\ AllGetsFailed) =>
        /\ Len(gets) = retry
        /\ \A i \in 1..Len(gets) : gets[i].url = url
        /\ f_sleeps = [i \in 1..(IF retry = 0 THEN 0 ELSE retry - 1) |-> 2 ^ (i - 1)]
        /\ f_result = <<"None">>

\* three failed attempts, with sleeps of 1 and 2 seconds between them
C1_Witness ==
    /\ f_pc = "done" /\ AllGetsFailed
    /\ retry = 3 /\ Len(gets) = 3
    /\ f_sleeps = <<1, 2>>
    /\ f_result = <<"None">>

(***************************************************************************)
(* AIProcessor._call_api                                                   *)
(***************************************************************************)
MaxRetries == 3

\* what the provider answers: English text, Chinese text with blanks around
\* it, a blank answer
Responses == {<<Run("lat", 900)>>,
              <<Run("ws", 1), Run("zh", 600), Run("nl", 1)>>,
              <<Run("ws", 2)>>}
\* what a failing attempt raises (the client's error, or AttributeError on a
\* response without text)
Errors == {"APIError", "AttributeError"}

Returned(t) == [kind |-> "text", text |-> t, err |-> ""]
Raised(e) == [kind |-> "raise", text |-> <<>>, err |-> e]
ReturnedNone == [kind |-> "None", text |-> <<>>, err |-> ""]

\* except Exception: sleep and go on, or raise again after the last attempt
call_api_except(a, n) ==
    IF a < n - 1 THEN "sleep" ELSE "raise"

\* a caller enters _call_api
CallApi(stage, prompt, temp, n) ==
    /\ api_stage' = stage
    /\ api_prompt' = prompt
    /\ temperature' = temp
    /\ max_retries' = n
    /\ attempt' = 0
    /\ api_pc' = "loop"
    /\ api_log' = <<>>
    /\ api_result' = <<>>
    /\ UNCHANGED <<calls, sleeps>>

ThisCall(ok) ==
    [stage |-> api_stage, prompt |-> api_prompt, temperature |-> temperature, ok |-> ok]

\* the provider answers: return response...strip()
ApiAttemptReturns ==
    /\ api_pc = "loop" /\ attempt < max_retries
    /\ \E response \in Responses :
        /\ api_log' = Append(api_log, Returned(response))
        /\ api_result' = <<Returned(Strip(response))>>
    /\ calls' = Append(calls, ThisCall(TRUE))
    /\ api_pc' = "done"
    /\ UNCHANGED <<api_stage, api_prompt, temperature, max_retries, attempt, sleeps>>
    /\ UNCHANGED <<textVars, excerptVars, tagVars, idVars, fetchVars, procVars, batchVars, otherVars>>

\* the attempt raises: the except branch
ApiAttemptRaises ==
    /\ api_pc = "loop" /\ attempt < max_retries
    /\ calls' = Append(calls, ThisCall(FALSE))
    /\ \E e \in Errors :
        /\ api_log' = Append(api_log, Raised(e))
        /\ IF call_api_except(attempt, max_retries) = "sleep"
           THEN /\ sleeps' = Append(sleeps, 2 ^ attempt)
                /\ attempt' = attempt + 1
                /\ UNCHANGED <<api_pc, api_result>>
           ELSE /\ api_result' = <<Raised(e)>>
                /\ api_pc' = "done"
                /\ UNCHANGED <<sleeps, attempt>>
    /\ UNCHANGED <<api_stage, api_prompt, temperature, max_retries>>
    /\ UNCHANGED <<textVars, excerptVars, tagVars, idVars, fetchVars, procVars, batchVars, otherVars>>

\* range(max_retries) is exhausted: the function falls off its end, returning None
ApiLoopEnds ==
    /\ api_pc = "loop" /\ attempt >= max_retries
    /\ api_result' = <<ReturnedNone>>
    /\ api_pc' = "done"
    /\ UNCHANGED <<api_stage, api_prompt, temperature, max_retries, attempt, api_log,
                   calls, sleeps>>
    /\ UNCHANGED <<textVars, excerptVars, tagVars, idVars, fetchVars, procVars, batchVars, otherVars>>

Prompts == {<<Run("lat", 30)>>, <<Run("lat", 4000)>>}

InitCallApi ==
    /\ api_stage = "top"
    /\ api_prompt \in Prompts
    /\ temperature \in {3, 7, 8}
    /\ max_retries \in 0..MaxRetries
    /\ attempt = 0
    /\ api_pc = "loop"
    /\ api_log = <<>> /\ api_result = <<>> /\ calls = <<>> /\ sleeps = <<>>
    /\ TextIdle /\ ExcerptIdle /\ TagsIdle /\ DirIdle /\ FetchIdle /\ ProcIdle /\ BatchIdle /\ OthersIdle

NextCallApi == ApiAttemptReturns \/ ApiAttemptRaises \/ ApiLoopEnds

SpecCallApi == InitCallApi /\ [][NextCallApi]_vars

AllAttemptsFailed == \A i \in 1..Len(api_log) : api_log[i].kind = "raise"

\* C2: the provider is called at most max_retries times; a finished call
\* whose attempts all failed propagated an error and returned no value; a
\* finished call that returned a text returned the stripped text of its first
\* successful attempt, which was its last attempt; a sleep of 2^attempt
\* seconds follows every attempt that is followed by another.
C2_CallApi ==
    /\ Len(api_log) <= max_retries
    /\ \A i \in 1..Len(sleeps) : sleeps[i] = 2 ^ (i - 1)
    /\ (api_pc = "done" /\ AllAttemptsFailed) => api_result[1].kind = "raise"
    /\ (api_pc = "done" /\ ~AllAttemptsFailed) =>
        /\ api_log[Len(api_log)].kind = "text"
        /\ api_result[1] = Returned(Strip(api_log[Len(api_log)].text))
        /\ \A i \in 1..(Len(api_log) - 1) : api_log[i].kind = "raise"
        /\ Len(sleeps) = Len(api_log) - 1

\* what _call_api does, whatever max_retries is: as C2 says when
\* max_retries >= 1, the error propagated being the one of attempt
\* max_retries; when max_retries = 0 the provider is not called and the
\* function falls off its end, returning None
CallApiBehaviour ==
    /\ Len(api_log) <= max_retries
    /\ Len(calls) = Len(api_log)
    /\ \A i \in 1..Len(sleeps) : sleeps[i] = 2 ^ (i - 1)
    /\ api_pc = "loop" => Len(sleeps) = Len(api_log) /\ AllAttemptsFailed
    /\ (api_pc = "done" /\ api_log # <<>>) => Len(sleeps) = Len(api_log) - 1
    /\ (api_pc = "done" /\ api_result[1].kind = "text") =>
        /\ api_log[Len(api_log)].kind = "text"
        /\ api_result[1].text = Strip(api_log[Len(api_log)].text)
        /\ \A i \in 1..(Len(api_log) - 1) : api_log[i].kind = "raise"
    /\ (api_pc = "done" /\ AllAttemptsFailed /\ max_retries >= 1) =>
        /\ Len(api_log) = max_retries
        /\ api_result[1] = Raised(api_log[max_retries].err)
    /\ (api_pc = "done" /\ max_retries = 0) =>
        api_result[1] = ReturnedNone /\ calls = <<>>

\* three attempts failed with different errors and the last error was raised
CallApiExample ==
    /\ api_pc = "done" /\ max_retries = 3 /\ Len(api_log) = 3
    /\ api_log[2].err = "APIError"
    /\ api_result[1] = Raised("AttributeError")
    /\ sleeps = <<1, 2>>

(***************************************************************************)
(* AIProcessor.process_article, extract_and_rewrite, translate_to_chinese  *)
(***************************************************************************)
DefaultMaxRetries == 3
ExtractPromptChars == 4000
KeyPointsFallbackChars == 500
TranslatePromptChars == 4000

\* the value of a key the dict does not hold
Unset == <<Run("unset", 0)>>
\* article.get(key, default)
Get(a, key, default) == IF a[key] = Unset THEN default ELSE a[key]
\* x or y, for strings and None
Or(x, y) == IF x # Unset /\ x # <<>> THEN x ELSE y

Titles == {Unset, <<Run("lat", 30)>>}
Contents == {<<>>, <<Run("lat", 5000)>>, <<Run("lat", 400)>>, <<Run("zh", 600)>>}
Articles ==
    {[title |-> t, content |-> c, original_content |-> Unset, key_points |-> Unset,
      rewritten_content |-> Unset, title_zh |-> Unset, content_zh |-> Unset] :
        t \in Titles, c \in Contents}

\* the frame of _call_api after its caller has taken the result
ApiReturn ==
    /\ api_stage' = "" /\ api_prompt' = <<>> /\ temperature' = 0 /\ max_retries' = 0
    /\ attempt' = 0 /\ api_pc' = "idle" /\ api_log' = <<>> /\ api_result' = <<>>
    /\ UNCHANGED <<calls, sleeps>>

\* the mutant: on failure the whole content stands in for the key points
extract_result_whole(original_content, res) ==
    IF res.kind = "raise" THEN original_content ELSE res.text

\* try: key_points = self._call_api(...) except: key_points = original_content[:500]
extract_result(original_content, res) ==
    IF res.kind = "raise" THEN Take(original_content, KeyPointsFallbackChars) ELSE res.text

\* the mutant: a failed rewrite leaves the article as it was
rewrite_result_no_fallback(a, original_content, kp, res) ==
    IF res.kind = "raise"
    THEN a
    ELSE [a EXCEPT !.original_content = original_content,
                   !.key_points = kp,
                   !.rewritten_content = res.text]

\* try: rewritten_content = self._call_api(...); article[...] = ... except: ...
rewrite_result(a, original_content, kp, res) ==
    IF res.kind = "raise"
    THEN [a EXCEPT !.rewritten_content = original_content]
    ELSE [a EXCEPT !.original_content = original_content,
                   !.key_points = kp,
                   !.rewritten_content = res.text]

\* content = article.get('rewritten_content') or article.get('content', '')
translate_content(a) == Or(a.rewritten_content, Get(a, "content", <<>>))

\* the mutant: the raw content is copied even when a rewrite exists
skip_translation_result_raw(a) ==
    [a EXCEPT !.title_zh = Get(a, "title", <<>>),
              !.content_zh = Get(a, "content", <<>>)]

\* process_article's else branch: translation skipped
skip_translation_result(a) ==
    [a EXCEPT !.title_zh = Get(a, "title", <<>>),
              !.content_zh = Or(a.rewritten_content, Get(a, "content", <<>>))]

\* the mutant: the heuristic looks at the raw content only
already_chinese_raw(a) == _is_chinese(Get(a, "content", <<>>))

\* the mutant: the content is never taken for Chinese
never_chinese(a) == FALSE

\* if self._is_chinese(content)
already_chinese(a) == _is_chinese(translate_content(a))

\* translate_to_chinese on content that is already Chinese
chinese_result(a) ==
    [a EXCEPT !.title_zh = Get(a, "title", <<>>), !.content_zh = translate_content(a)]

\* try: title_zh = self._call_api(...) except: article['title_zh'] = title
title_result(a, res) ==
    [a EXCEPT !.title_zh = IF res.kind = "raise" THEN Get(a, "title", <<>>) ELSE res.text]

\* the mutant: on failure the text that was sent is kept, not the whole content
body_result_truncated(a, c, res) ==
    [a EXCEPT !.content_zh = IF res.kind = "raise" THEN Take(c, TranslatePromptChars)
                             ELSE res.text]

\* try: content_zh = self._call_api(...) except: article['content_zh'] = content
body_result(a, c, res) ==
    [a EXCEPT !.content_zh = IF res.kind = "raise" THEN c ELSE res.text]

Elsewhere == UNCHANGED <<textVars, excerptVars, tagVars, idVars, fetchVars, batchVars, otherVars>>

InitProcess ==
    /\ article \in Articles
    /\ skip_translation \in BOOLEAN
    /\ pc = "start"
    /\ key_points = <<>>
    /\ tr_content = <<>>
    /\ TextIdle /\ ExcerptIdle /\ TagsIdle /\ DirIdle /\ FetchIdle /\ ApiIdle /\ BatchIdle /\ OthersIdle

\* extract_and_rewrite on an article without content: returned as it is
ExtractSkipsEmpty ==
    /\ pc = "start"
    /\ Get(article, "content", <<>>) = <<>>
    /\ pc' = "step2"
    /\ UNCHANGED <<article, skip_translation, key_points, tr_content, apiVars>>
    /\ Elsewhere

\* step 1 of extract_and_rewrite: the key points are asked for
ExtractCall ==
    /\ pc = "start"
    /\ Get(article, "content", <<>>) # <<>>
    /\ CallApi("extract", Take(Get(article, "content", <<>>), ExtractPromptChars), 7,
               DefaultMaxRetries)
    /\ pc' = "extract"
    /\ UNCHANGED <<article, skip_translation, key_points, tr_content>>
    /\ Elsewhere

\* the key points are there, or their fallback; step 2: the rewrite is asked for
ExtractDone ==
    /\ pc = "extract" /\ api_pc = "done"
    /\ key_points' = extract_result(Get(article, "content", <<>>), api_result[1])
    /\ CallApi("rewrite", key_points', 8, DefaultMaxRetries)
    /\ pc' = "rewrite"
    /\ UNCHANGED <<article, skip_translation, tr_content>>
    /\ Elsewhere

\* the rewrite is there, or its fallback; extract_and_rewrite returns
RewriteDone ==
    /\ pc = "rewrite" /\ api_pc = "done"
    /\ article' = rewrite_result(article, Get(article, "content", <<>>), key_points,
                                 api_result[1])
    /\ ApiReturn
    /\ key_points' = <<>>
    /\ pc' = "step2"
    /\ UNCHANGED <<skip_translation, tr_content>>
    /\ Elsewhere

\* process_article with skip_translation: the fields are copied
SkipTranslation ==
    /\ pc = "step2" /\ skip_translation
    /\ article' = skip_translation_result(article)
    /\ pc' = "done"
    /\ UNCHANGED <<skip_translation, key_points, tr_content, apiVars>>
    /\ Elsewhere

\* translate_to_chinese on content classified Chinese: copied, no call
TranslateAlreadyChinese ==
    /\ pc = "step2" /\ ~skip_translation
    /\ already_chinese(article)
    /\ article' = chinese_result(article)
    /\ pc' = "done"
    /\ UNCHANGED <<skip_translation, key_points, tr_content, apiVars>>
    /\ Elsewhere

\* translate_to_chinese: the title's translation is asked for
TitleCall ==
    /\ pc = "step2" /\ ~skip_translation
    /\ ~already_chinese(article)
    /\ tr_content' = translate_content(article)
    /\ CallApi("title", Get(article, "title", <<>>), 3, DefaultMaxRetries)
    /\ pc' = "title"
    /\ UNCHANGED <<article, skip_translation, key_points>>
    /\ Elsewhere

\* the title is there, or its fallback; the body's translation is asked for
TitleDone ==
    /\ pc = "title" /\ api_pc = "done"
    /\ article' = title_result(article, api_result[1])
    /\ CallApi("body", Take(tr_content, TranslatePromptChars), 3, DefaultMaxRetries)
    /\ pc' = "body"
    /\ UNCHANGED <<skip_translation, key_points, tr_content>>
    /\ Elsewhere

\* the body is there, or its fallback; process_article returns
BodyDone ==
    /\ pc = "body" /\ api_pc = "done"
    /\ article' = body_result(article, tr_content, api_result[1])
    /\ ApiReturn
    /\ tr_content' = <<>>
    /\ pc' = "done"
    /\ UNCHANGED <<skip_translation, key_points>>
    /\ Elsewhere

NextProcess ==
    \/ ExtractSkipsEmpty \/ ExtractCall \/ ExtractDone \/ RewriteDone
    \/ SkipTranslation \/ TranslateAlreadyChinese \/ TitleCall \/ TitleDone \/ BodyDone
    \/ ApiAttemptReturns \/ ApiAttemptRaises

SpecProcess == InitProcess /\ [][NextProcess]_vars

\* The stages whose provider calls were made, in order, each once.
RECURSIVE StagesOf(_)
StagesOf(cs) ==
    IF cs = <<>> THEN <<>>
    ELSE LET rest == StagesOf(Tail(cs)) IN
         IF rest # <<>> /\ Head(rest) = Head(cs).stage THEN rest
         ELSE <<Head(cs).stage>> \o rest
StageAttempted(st) == \E i \in 1..Len(calls) : calls[i].stage = st
\* the stage's last attempt failed: its _call_api raised
StageFailed(st) ==
    /\ StageAttempted(st)
    /\ LET last == CHOOSE i \in 1..Len(calls) :
                       /\ calls[i].stage = st
                       /\ \A j \in (i + 1)..Len(calls) : calls[j].stage # st
       IN ~calls[last].ok
AllStages == <<"extract", "rewrite", "title", "body">>
StageNo(st) == CHOOSE i \in 1..Len(AllStages) : AllStages[i] = st
\* no stage comes back after a later one was attempted
InStageOrder(sts) == \A i, j \in 1..Len(sts) : i < j => StageNo(sts[i]) < StageNo(sts[j])
SourceTitle == IF article.title = Unset THEN <<>> ELSE article.title
SourceContent ==
    IF article.rewritten_content \notin {Unset, <<>>} THEN article.rewritten_content
    ELSE IF article.content = Unset THEN <<>> ELSE article.content

\* C3: once process_article has returned, title_zh and content_zh are set;
\* when translation was skipped they are the title and the rewritten (else
\* original) content, and so is each of them whose translation call failed.
C3_ZhFieldsSet ==
    pc = "done" =>
        /\ article.title_zh # Unset
        /\ article.content_zh # Unset
        /\ skip_translation =>
            article.title_zh = SourceTitle /\ article.content_zh = SourceContent
        /\ StageFailed("title") => article.title_zh = SourceTitle
        /\ StageFailed("body") => article.content_zh = SourceContent

\* both translation calls failed on a content longer than the 4000 characters
\* sent, and the fields hold the title and the whole content
C3_Witness ==
    /\ pc = "done" /\ ~skip_translation
    /\ StageFailed("title") /\ StageFailed("body")
    /\ TLen(article.content_zh) = 5000
    /\ article.title_zh = <<Run("lat", 30)>>

\* C4 as stated: for an article with content and translation not skipped,
\* all four stages are attempted, in the order extraction, rewrite, title
\* translation, body translation.
C4_AsStated ==
    (pc = "done" /\ ~skip_translation /\ article.content # <<>>) =>
        StagesOf(calls) = AllStages

\* C4 (amended): the stages are attempted in the order extraction, rewrite,
\* title translation, body translation, each at most DefaultMaxRetries times;
\* for an article with content and translation not skipped, extraction and
\* rewrite are always attempted, and the two translations are attempted
\* unless the content to translate is classified already Chinese, whatever
\* failed before; process_article always goes on until it returns.
C4_StageOrder ==
    /\ InStageOrder(StagesOf(calls))
    /\ \A i \in 1..Len(AllStages) :
        Len(SelectSeq(calls, LAMBDA c : c.stage = AllStages[i])) <= DefaultMaxRetries
    /\ pc # "done" => ENABLED NextProcess
    /\ (pc = "done" /\ ~skip_translation /\ article.content # <<>>) =>
        StagesOf(calls) = IF _is_chinese(SourceContent)
                          THEN <<"extract", "rewrite">>
                          ELSE AllStages

\* every stage failed after three attempts, and each later stage was still
\* attempted
C4_Witness ==
    /\ pc = "done" /\ ~skip_translation
    /\ Len(calls) = 12
    /\ \A i \in 1..Len(calls) : ~calls[i].ok
    /\ StagesOf(calls) = AllStages

\* C5: after process_article with skip_translation, title_zh is the title,
\* content_zh is the rewritten content when there is a non-empty one and the
\* original content otherwise, and no translation call was made.
C5_SkipCopies ==
    (pc = "done" /\ skip_translation) =>
        /\ article.title_zh = (IF article.title = Unset THEN <<>> ELSE article.title)
        /\ article.content_zh =
             (IF article.rewritten_content # Unset /\ TLen(article.rewritten_content) > 0
              THEN article.rewritten_content
              ELSE article.content)
        /\ \A i \in 1..Len(calls) : calls[i].stage \in {"extract", "rewrite"}

\* translation was skipped after a rewrite that differs from the content
C5_Witness ==
    /\ pc = "done" /\ skip_translation
    /\ article.rewritten_content = <<Run("lat", 900)>>
    /\ article.content = <<Run("lat", 5000)>>
    /\ article.content_zh = <<Run("lat", 900)>>

\* p is the first k characters of s (the whole of s when it is shorter)
\* (a text is constant from one run's start to the next: the characters are
\* compared where a run of either text starts)
RunStarts(s) == {1 + TLen(SubSeq(s, 1, j)) : j \in 0..(Len(s) - 1)}
FirstChars(p, s, k) ==
    /\ TLen(p) = Min(TLen(s), k)
    /\ \A i \in (RunStarts(p) \cup RunStarts(s)) \cap 1..TLen(p) : CharAt(p, i) = CharAt(s, i)
\* the calls of a stage
CallsOf(st) == SelectSeq(calls, LAMBDA c : c.stage = st)
\* extract_and_rewrite has returned, for an article that has content
Rewritten ==
    /\ pc \in {"step2", "title", "body", "done"}
    /\ article.content \notin {Unset, <<>>}
StrippedResponses == {Strip(r) : r \in Responses}

\* C15: when the extraction call has failed, what the rewrite call is given
\* as key points is the first 500 characters of the raw content; when the
\* rewrite call has failed, rewritten_content is the whole raw content.
C15_Fallbacks ==
    /\ StageFailed("extract") =>
        \A i \in 1..Len(calls) :
            calls[i].stage = "rewrite" => FirstChars(calls[i].prompt, article.content, 500)
    /\ (Rewritten /\ StageFailed("rewrite")) =>
        /\ article.rewritten_content = article.content
        /\ TLen(article.rewritten_content) = TLen(article.content)

\* both calls failed on a content of 5000 characters: the rewrite was asked
\* for with 500 of them, and rewritten_content is all 5000
C15_Witness ==
    /\ Rewritten /\ StageFailed("extract") /\ StageFailed("rewrite")
    /\ CallsOf("rewrite")[1].prompt = <<Run("lat", 500)>>
    /\ article.rewritten_content = <<Run("lat", 5000)>>

\* C16 as stated: after extract_and_rewrite on an article with content,
\* key_points, rewritten_content and original_content are all set.
C16_AsStated ==
    Rewritten =>
        /\ article.key_points # Unset
        /\ article.rewritten_content # Unset
        /\ article.original_content # Unset

\* C16 (amended): after extract_and_rewrite on an article with content,
\* rewritten_content is set whichever call failed; key_points and
\* original_content are set when the rewrite call succeeded (to the key
\* points it was given and to the raw content), and are left as they were,
\* absent, when it failed.
C16_RewriteFields ==
    Rewritten =>
        /\ article.rewritten_content # Unset
        /\ StageFailed("rewrite") =>
            /\ article.key_points = Unset
            /\ article.original_content = Unset
        /\ ~StageFailed("rewrite") =>
            /\ article.original_content = article.content
            /\ article.key_points = CallsOf("rewrite")[Len(CallsOf("rewrite"))].prompt
            /\ article.rewritten_content \in StrippedResponses

\* the extraction succeeded and the rewrite failed: only rewritten_content
\* is there
C16_Witness ==
    /\ Rewritten /\ ~StageFailed("extract") /\ StageFailed("rewrite")
    /\ article.rewritten_content = <<Run("lat", 400)>>
    /\ article.key_points = Unset /\ article.original_content = Unset

\* the translation calls, one entry per _call_api
TranslationStages == StagesOf(SelectSeq(calls, LAMBDA c : c.stage \in {"title", "body"}))

\* C17: after translate_to_chinese, when the content to translate (the
\* rewritten content, else the raw content) is classified Chinese, no call
\* was made and title_zh and content_zh are the title and that content;
\* otherwise _call_api was called twice, for the title and then for the first
\* 4000 characters of the content, both at temperature 0.3; title_zh is the
\* answer to the first call, or the title when it failed, and content_zh the
\* answer to the second, or the whole content when it failed, each whatever
\* happened to the other.
C17_Translate ==
    (pc = "done" /\ ~skip_translation) =>
        IF _is_chinese(SourceContent)
        THEN /\ TranslationStages = <<>>
             /\ article.title_zh = SourceTitle
             /\ article.content_zh = SourceContent
        ELSE /\ TranslationStages = <<"title", "body">>
             /\ \A i \in 1..Len(calls) :
                 /\ calls[i].stage = "title" =>
                     calls[i].prompt = SourceTitle /\ calls[i].temperature = 3
                 /\ calls[i].stage = "body" =>
                     /\ FirstChars(calls[i].prompt, SourceContent, 4000)
                     /\ calls[i].temperature = 3
             /\ IF StageFailed("title") THEN article.title_zh = SourceTitle
                ELSE article.title_zh \in StrippedResponses
             /\ IF StageFailed("body") THEN article.content_zh = SourceContent
                ELSE article.content_zh \in StrippedResponses

\* the title's translation failed and the body's did not, on a raw content of
\* 5000 characters that no rewrite replaced: 4000 of them were sent
C17_Witness ==
    /\ pc = "done" /\ ~skip_translation
    /\ StageFailed("rewrite") /\ StageFailed("title") /\ ~StageFailed("body")
    /\ article.title_zh = <<Run("lat", 30)>>
    /\ CallsOf("body")[1].prompt = <<Run("lat", 4000)>>
    /\ article.content_zh = <<Run("zh", 600)>>

\* a content classified Chinese: copied without a call
AlreadyChineseExample ==
    /\ pc = "done" /\ ~skip_translation
    /\ TranslationStages = <<>>
    /\ article.content_zh = <<Run("zh", 600)>> /\ article.content = <<Run("zh", 600)>>

(***************************************************************************)
(* ArticleScraper.scrape_by_category                                       *)
(***************************************************************************)
MaxArticles == 2

\* extract_and_rewrite as one step, from the results of its two calls
extract_and_rewrite(a, r1, r2) ==
    IF Get(a, "content", <<>>) = <<>> THEN a
    ELSE LET original_content == Get(a, "content", <<>>) IN
         rewrite_result(a, original_content, extract_result(original_content, r1), r2)

\* translate_to_chinese as one step, from the results of its two calls
translate_to_chinese(a, r3, r4) ==
    IF already_chinese(a) THEN chinese_result(a)
    ELSE body_result(title_result(a, r3), translate_content(a), r4)

\* process_article as one step
process_article(a, skip, r1, r2, r3, r4) ==
    LET b == extract_and_rewrite(a, r1, r2) IN
    IF ~skip THEN translate_to_chinese(b, r3, r4) ELSE skip_translation_result(b)

\* what the provider calls of one article come to
StageOutcomes == {Raised("APIError"), Returned(<<Run("lat", 900)>>)}

\* the article as process_article has left it when an exception escapes:
\* untouched, or after step 1, or after the title of step 2
Interrupted(a, skip) ==
    {a}
    \cup {extract_and_rewrite(a, r1, r2) : r1 \in StageOutcomes, r2 \in StageOutcomes}
    \cup {title_result(b, r3) :
            b \in {c \in {extract_and_rewrite(a, r1, r2) :
                            r1 \in StageOutcomes, r2 \in StageOutcomes} :
                     ~skip /\ ~already_chinese(c)},
            r3 \in StageOutcomes}

\* the mutant: the handler copies the rewritten content when there is one
except_result_rewritten(a) ==
    [a EXCEPT !.title_zh = Get(a, "title", <<>>),
              !.content_zh = Or(a.rewritten_content, Get(a, "content", <<>>))]

\* except Exception: article['title_zh'] = ...; article['content_zh'] = ...
except_result(a) ==
    [a EXCEPT !.title_zh = Get(a, "title", <<>>),
              !.content_zh = Get(a, "content", <<>>)]

\* what scrape_category returns: articles with a title, a non-empty content
\* and their own url (here the position of the link on the page)
ScrapedContents == {<<Run("lat", 5000)>>, <<Run("zh", 600)>>}
Scraped(n) ==
    {[i \in 1..n |->
        [url |-> i, title |-> <<Run("lat", 30)>>, content |-> f[i],
         original_content |-> Unset, key_points |-> Unset,
         rewritten_content |-> Unset, title_zh |-> Unset, content_zh |-> Unset]] :
     f \in [1..n -> ScrapedContents]}
ScrapedLists == UNION {Scraped(n) : n \in 0..MaxArticles}

InitScrape ==
    /\ articles \in ScrapedLists
    /\ skip_translation \in BOOLEAN
    /\ done_count = 0
    /\ processed_articles = <<>>
    /\ failed = {}
    /\ sb_pc = "loop"
    /\ article = <<>> /\ pc = "idle" /\ key_points = <<>> /\ tr_content = <<>>
    /\ TextIdle /\ ExcerptIdle /\ TagsIdle /\ DirIdle /\ FetchIdle /\ ApiIdle /\ OthersIdle

BatchElsewhere ==
    UNCHANGED <<textVars, excerptVars, tagVars, idVars, fetchVars, apiVars, procVars, otherVars>>

\* if not articles: return []
ReturnEmpty ==
    /\ sb_pc = "loop" /\ articles = <<>>
    /\ sb_pc' = "returned"
    /\ UNCHANGED <<articles, done_count, processed_articles, failed>>
    /\ BatchElsewhere

\* one iteration whose process_article returns: the dict of the list is
\* changed in place and appended
ProcessArticleReturns ==
    /\ sb_pc = "loop" /\ done_count < Len(articles)
    /\ \E r1 \in StageOutcomes, r2 \in StageOutcomes,
          r3 \in StageOutcomes, r4 \in StageOutcomes :
        LET processed == process_article(articles[done_count + 1], skip_translation,
                                         r1, r2, r3, r4)
        IN /\ articles' = [articles EXCEPT ![done_count + 1] = processed]
           /\ processed_articles' = Append(processed_articles, processed)
    /\ done_count' = done_count + 1
    /\ UNCHANGED <<failed, sb_pc>>
    /\ BatchElsewhere

\* one iteration whose process_article raises: the handler copies the raw
\* title and content and appends the article
ProcessArticleRaises ==
    /\ sb_pc = "loop" /\ done_count < Len(articles)
    /\ \E left \in Interrupted(articles[done_count + 1], skip_translation) :
        /\ articles' = [articles EXCEPT ![done_count + 1] = except_result(left)]
        /\ processed_articles' = Append(processed_articles, except_result(left))
    /\ done_count' = done_count + 1
    /\ failed' = failed \cup {done_count + 1}
    /\ UNCHANGED sb_pc
    /\ BatchElsewhere

\* return processed_articles
ReturnProcessed ==
    /\ sb_pc = "loop" /\ articles # <<>> /\ done_count = Len(articles)
    /\ sb_pc' = "returned"
    /\ UNCHANGED <<articles, done_count, processed_articles, failed>>
    /\ BatchElsewhere

NextScrape == ReturnEmpty \/ ProcessArticleReturns \/ ProcessArticleRaises \/ ReturnProcessed

SpecScrape == InitScrape /\ [][NextScrape]_vars

\* C7: scrape_by_category appends one entry per scraped article, in the
\* order scraped, whether or not process_article raised; an article whose
\* processing raised is appended with title_zh its raw title and content_zh
\* its raw content, and the articles after it are still processed: the loop
\* goes on until every article has its entry, and then returns them all.
C7_BatchIsolation ==
    /\ Len(processed_articles) = done_count
    /\ \A i \in 1..Len(processed_articles) :
        /\ processed_articles[i].url = i
        /\ processed_articles[i].title = <<Run("lat", 30)>>
        /\ processed_articles[i].content \in ScrapedContents
        /\ processed_articles[i].title_zh # Unset
        /\ processed_articles[i].content_zh # Unset
        /\ i \in failed =>
            /\ processed_articles[i].title_zh = processed_articles[i].title
            /\ processed_articles[i].content_zh = processed_articles[i].content
    /\ sb_pc = "loop" => ENABLED NextScrape
    /\ sb_pc = "returned" => Len(processed_articles) = Len(articles)

\* the first article's processing raised after its rewrite had succeeded; it
\* was appended with its raw content, and the second was processed and
\* translated after it
C7_Witness ==
    /\ sb_pc = "returned" /\ Len(processed_articles) = 2
    /\ failed = {1}
    /\ processed_articles[1].rewritten_content = <<Run("lat", 900)>>
    /\ processed_articles[1].content_zh = <<Run("lat", 5000)>>
    /\ processed_articles[2].content_zh = <<Run("lat", 900)>>
    /\ processed_articles[2].key_points # Unset

\* the steps of process_article and its one-step form come to the same article
SourceArticle ==
    [article EXCEPT !.original_content = Unset, !.key_points = Unset,
                    !.rewritten_content = Unset, !.title_zh = Unset,
                    !.content_zh = Unset]
ApiOutcomes == {Raised(e) : e \in Errors} \cup {Returned(Strip(r)) : r \in Responses}
StepsAgree ==
    pc = "done" =>
        \E r1 \in ApiOutcomes, r2 \in ApiOutcomes, r3 \in ApiOutcomes, r4 \in ApiOutcomes :
            article = process_article(SourceArticle, skip_translation, r1, r2, r3, r4)

(***************************************************************************)
(* ContentGenerator._sanitize_filename and the filename of save_article    *)
(***************************************************************************)
SanitizeLimit == 50
MaxTitleRuns == 3

WordChars == {"zh", "lat", "dg"}
Separators == {"hy", "ws", "nl"}
Specials == {"dot", "mk"}

RECURSIVE SkipSeparators(_)
SkipSeparators(s) ==
    IF s # <<>> /\ Head(s).c \in Separators THEN SkipSeparators(Tail(s)) ELSE s

RECURSIVE Collapse(_)
\* re.sub(r'[-\s]+', '-', s)
Collapse(s) ==
    IF s = <<>> THEN <<>>
    ELSE IF Head(s).c \in Separators THEN <<Run("hy", 1)>> \o Collapse(SkipSeparators(s))
    ELSE <<Head(s)>> \o Collapse(Tail(s))

RECURSIVE StripHyphensLeft(_)
StripHyphensLeft(s) ==
    IF s # <<>> /\ Head(s).c = "hy" THEN StripHyphensLeft(Tail(s)) ELSE s
RECURSIVE StripHyphensRight(_)
StripHyphensRight(s) ==
    IF s # <<>> /\ s[Len(s)].c = "hy" THEN StripHyphensRight(SubSeq(s, 1, Len(s) - 1))
    ELSE s
\* s.strip('-')
StripHyphens(s) == StripHyphensRight(StripHyphensLeft(s))

\* the literal 'article'
ArticleLiteral == <<Run("lat", 7)>>

\* the mutant: the fallback for an empty result is forgotten
_sanitize_filename_no_fallback(t) ==
    Norm(Take(StripHyphens(Collapse(Without(t, Specials))), SanitizeLimit))

_sanitize_filename(t) ==
    LET removed == Without(t, Specials)
        collapsed == Collapse(removed)
        trimmed == Norm(Take(StripHyphens(collapsed), SanitizeLimit))
    IN IF trimmed = <<>> THEN ArticleLiteral ELSE trimmed

\* datetime.now().strftime('%Y-%m-%d')
strftime(now) ==
    <<Run("dg", 4), Run("hy", 1), Run("dg", 2), Run("hy", 1), Run("dg", 2)>>

\* title = article.get('title_zh') or article.get('title', 'article')
save_title(art) == Or(art.title_zh, Get(art, "title", ArticleLiteral))

\* f"{date_str}-{self._sanitize_filename(title)}.md", with the day it names
save_filename(art, now) ==
    [day |-> now,
     chars |-> strftime(now) \o <<Run("hy", 1)>> \o _sanitize_filename(save_title(art))
                   \o <<Run("dot", 1), Run("lat", 2)>>]

TitleRuns == {Run(c, n) : c \in {"lat", "zh", "hy", "ws", "mk"}, n \in {1, 49, 60}}
TitleTexts == {s \in SeqsUpTo(TitleRuns, MaxTitleRuns) : Canonical(s)}
\* the article has a translated title, or an empty one, or none; and a title or none
TitledArticles ==
    {[title_zh |-> t, title |-> Unset] : t \in TitleTexts}
    \cup {[title_zh |-> z, title |-> t] : z \in {Unset, <<>>}, t \in TitleTexts}
    \cup {[title_zh |-> Unset, title |-> Unset]}
Days == {[y |-> 2025, m |-> 1, d |-> 9], [y |-> 2026, m |-> 11, d |-> 30]}

InitFilename ==
    /\ fn_article \in TitledArticles
    /\ fn_now \in Days
    /\ fn_out = <<>>
    /\ FirstIdle /\ RestIdle("name")

\* save_article names the file
MakeFilename ==
    /\ fn_out = <<>>
    /\ fn_out' = <<save_filename(fn_article, fn_now)>>
    /\ UNCHANGED <<fn_article, fn_now>>
    /\ FirstUnchanged /\ RestUnchanged("name")

NextFilename == MakeFilename

SpecFilename == InitFilename /\ [][NextFilename]_vars

\* the title the filename is made of
ChosenTitle ==
    IF fn_article.title_zh \notin {Unset, <<>>} THEN fn_article.title_zh
    ELSE IF fn_article.title # Unset THEN fn_article.title
    ELSE ArticleLiteral
\* the characters of the filename between the date's hyphen and ".md"
Stem == LET f == Expand(fn_out[1].chars) IN SubSeq(f, 12, Len(f) - 3)

\* C19: the filename is a date of the form dddd-dd-dd, a hyphen, a stem and
\* ".md"; the stem has between 1 and 50 characters, all word characters or
\* hyphens (so no whitespace), and no two hyphens in a row; its word
\* characters are the leading word characters of the translated title (of the
\* title when there is no translated one), and it is 'article' when that title
\* has no word character.
C19_Filename ==
    fn_out # <<>> =>
        LET f == Expand(fn_out[1].chars)
            s == Stem
        IN /\ Len(f) >= 15
           /\ \A i \in {1, 2, 3, 4, 6, 7, 9, 10} : f[i] = "dg"
           /\ \A i \in {5, 8, 11} : f[i] = "hy"
           /\ f[Len(f) - 2] = "dot" /\ f[Len(f) - 1] = "lat" /\ f[Len(f)] = "lat"
           /\ Len(s) >= 1 /\ Len(s) <= 50
           /\ \A i \in 1..Len(s) : s[i] \in WordChars \cup {"hy"}
           /\ \A i \in 1..(Len(s) - 1) : ~(s[i] = "hy" /\ s[i + 1] = "hy")
           /\ LET words == SelectSeq(s, LAMBDA c : c \in WordChars)
                  source == SelectSeq(Expand(ChosenTitle), LAMBDA c : c \in WordChars)
              IN IF source = <<>> THEN s = Expand(ArticleLiteral)
                 ELSE Len(words) <= Len(source) /\ words = SubSeq(source, 1, Len(words))

\* a translated title of 49 letters, a blank and 60 more characters: the stem
\* is cut at 50 characters and ends with the hyphen the blank became
C19_Witness ==
    /\ fn_out # <<>>
    /\ fn_article.title_zh = <<Run("lat", 49), Run("ws", 1), Run("zh", 60)>>
    /\ Len(Stem) = 50
    /\ Stem[50] = "hy"

(***************************************************************************)
(* ContentGenerator.generate_markdown, save_article, save_articles         *)
(***************************************************************************)
MaxBatch == 2

\* the line "**原文来源**: [title](url)" of a document, which names its article
SourceLine(u) == [k |-> "source", v |-> u]

\* generate_markdown: the metadata block with the id first, the content, the
\* rule and the two closing lines
generate_markdown(art, article_id) ==
    Document(article_id, art.body_id) \o <<Delim, SourceLine(art.url), Other>>

\* Hello, Hello!, and a Chinese title
SaveTitles == {<<Run("lat", 5)>>, <<Run("lat", 5), Run("mk", 1)>>, <<Run("zh", 4)>>}
\* the batches: their articles are told apart by their url, here their position
SaveBatches ==
    UNION {{[i \in 1..n |-> [url |-> i, title_zh |-> f[i], title |-> Unset, body_id |-> 0]] :
                f \in [1..n -> SaveTitles]} : n \in 0..MaxBatch}
DayNo(day) == (day.y * 12 + day.m) * 31 + day.d
\* the day the run begins; midnight may pass during the batch
StartDay == [y |-> 2025, m |-> 1, d |-> 9]
\* the names save_article can give, and so the names of the output directory
SaveNames ==
    {save_filename([title_zh |-> t, title |-> Unset], day) : t \in SaveTitles, day \in Days}
EmptyDirectory == [exists |-> TRUE, files |-> [f \in SaveNames |-> Absent]]
\* the directory __init__ has made: empty, or with a document of an earlier run
SaveDirectories ==
    {EmptyDirectory}
    \cup {[EmptyDirectory EXCEPT !.files[f] = File(TRUE, Document(7, 0))] :
            f \in {g \in SaveNames : g.day = StartDay /\ TLen(g.chars) = 19}}

\* save_article: the id, the document, the name, the write; the directory
\* it leaves
save_article(d, art, now) ==
    [d EXCEPT !.files[save_filename(art, now)] =
                File(TRUE, generate_markdown(art, _get_next_id(d)))]

\* the mutant: no handler, the exception leaves save_articles
save_articles_except_raise(fps) == [filepaths |-> fps, next |-> "raised"]

\* except Exception as e: logger.error(...)
save_articles_except(fps) == [filepaths |-> fps, next |-> "loop"]

InitSave ==
    /\ sv_dir \in SaveDirectories
    /\ sv_articles \in SaveBatches
    /\ sv_now = StartDay
    /\ filepaths = <<>>
    /\ sv_log = <<>>
    /\ sv_pc = "loop"
    /\ FirstIdle /\ RestIdle("save")

\* one iteration whose save_article returns
SaveArticleSucceeds ==
    /\ sv_pc = "loop" /\ Len(sv_log) < Len(sv_articles)
    /\ \E now \in {day \in Days : DayNo(day) >= DayNo(sv_now)} :
        LET art == sv_articles[Len(sv_log) + 1] IN
        /\ sv_now' = now
        /\ sv_dir' = save_article(sv_dir, art, now)
        /\ filepaths' = Append(filepaths, save_filename(art, now))
        /\ sv_log' = Append(sv_log, [outcome |-> "saved", url |-> art.url,
                                     filepath |-> save_filename(art, now),
                                     id |-> _get_next_id(sv_dir)])
    /\ UNCHANGED <<sv_articles, sv_pc>>
    /\ FirstUnchanged /\ RestUnchanged("save")

\* one iteration whose save_article raises: before the file is opened, or
\* in the write, the file being left empty
SaveArticleRaises ==
    /\ sv_pc = "loop" /\ Len(sv_log) < Len(sv_articles)
    /\ \E now \in {day \in Days : DayNo(day) >= DayNo(sv_now)}, opened \in BOOLEAN :
        LET art == sv_articles[Len(sv_log) + 1]
            filepath == save_filename(art, now)
            handled == save_articles_except(filepaths)
        IN /\ sv_now' = now
           /\ sv_dir' = IF opened THEN [sv_dir EXCEPT !.files[filepath] = File(TRUE, <<>>)]
                        ELSE sv_dir
           /\ filepaths' = handled.filepaths
           /\ sv_pc' = handled.next
           /\ sv_log' = Append(sv_log, [outcome |-> "raised", url |-> art.url,
                                        filepath |-> filepath, id |-> 0])
    /\ UNCHANGED sv_articles
    /\ FirstUnchanged /\ RestUnchanged("save")

\* return filepaths
SaveReturns ==
    /\ sv_pc = "loop" /\ Len(sv_log) = Len(sv_articles)
    /\ sv_pc' = "returned"
    /\ UNCHANGED <<sv_dir, sv_articles, sv_now, filepaths, sv_log>>
    /\ FirstUnchanged /\ RestUnchanged("save")

NextSave == SaveArticleSucceeds \/ SaveArticleRaises \/ SaveReturns

SpecSave == InitSave /\ [][NextSave]_vars

Saved == {i \in 1..Len(sv_log) : sv_log[i].outcome = "saved"}
\* the file holds the document of the article with that url
HoldsDocumentOf(file, u) ==
    file.present /\ \E n \in 1..Len(file.lines) : file.lines[n] = SourceLine(u)

\* C11: when save_articles has returned, the articles saved have pairwise
\* distinct paths, and each one's document is in the file at its path.
C11_OneFilePerArticle ==
    sv_pc = "returned" =>
        /\ \A i, j \in Saved : i # j => sv_log[i].filepath # sv_log[j].filepath
        /\ \A i \in Saved : HoldsDocumentOf(sv_dir.files[sv_log[i].filepath], sv_log[i].url)

\* what holds of the code: the file at a saved article's path holds the
\* document of the last article saved under that name on that day
LastWriterWins ==
    sv_pc = "returned" =>
        \A i \in Saved :
            (\A j \in (i + 1)..Len(sv_log) : sv_log[j].filepath # sv_log[i].filepath)
                => HoldsDocumentOf(sv_dir.files[sv_log[i].filepath], sv_log[i].url)

\* C12: save_articles never raises; every article of the batch is attempted,
\* in order, whatever the saves before it did, until the function returns;
\* filepaths holds the paths of exactly the articles whose save succeeded, in
\* batch order, and an article whose save raised contributes none.
C12_BatchContinues ==
    /\ sv_pc # "raised"
    /\ Len(sv_log) <= Len(sv_articles)
    /\ \A i \in 1..Len(sv_log) : sv_log[i].url = sv_articles[i].url
    /\ LET succeeded == SelectSeq(sv_log, LAMBDA e : e.outcome = "saved") IN
        /\ Len(filepaths) = Len(succeeded)
        /\ \A n \in 1..Len(filepaths) : filepaths[n] = succeeded[n].filepath
    /\ sv_pc = "loop" => ENABLED NextSave
    /\ sv_pc = "returned" => Len(sv_log) = Len(sv_articles)

\* the first save raised, the second succeeded, and the second path only was
\* returned
C12_Witness ==
    /\ sv_pc = "returned"
    /\ Len(sv_log) = 2
    /\ sv_log[1].outcome = "raised" /\ sv_log[2].outcome = "saved"
    /\ filepaths = <<sv_log[2].filepath>>

(***************************************************************************)
(* article_scraper.main: start-up, construction, run, exit                 *)
(***************************************************************************)
MaxEvents == 2

\* the run's inputs.  annotations_deferred: the interpreter evaluates the
\* annotations of a def lazily (Python 3.14 on); on an earlier one the def of
\* generate_markdown evaluates Optional, which content_generator.py does not
\* import, and the import of the module raises NameError
Environments ==
    [annotations_deferred : BOOLEAN,
     config_arg : BOOLEAN,                                 \* -c given
     config_file : {"ok", "unreadable", "not json"},
     has_website : BOOLEAN,                                \* config['website'] there
     config_api_key : BOOLEAN,                             \* config['ai']['api_key'] set
     env_api_key : BOOLEAN,                                \* OPENAI_API_KEY / ANTHROPIC_API_KEY
     client_library : BOOLEAN,                             \* openai / anthropic installed
     categories : {"none", "some"},                        \* config['website']['categories']
     url_arg : BOOLEAN]                                    \* -u given

\* the mutant: the credential is not checked
has_api_key_unchecked(env) == TRUE

\* self.api_key = api_key or self._get_api_key(); if not self.api_key: raise
has_api_key(env) == env.config_api_key \/ env.env_api_key

\* the status of a process that ends on an uncaught exception, on sys.exit(1),
\* on argparse's error, and on the return of main
UncaughtException == 1
SysExit1 == 1
ArgparseError == 2
NormalExit == 0

InitMain ==
    /\ m_env \in Environments
    /\ m_pc = "start"
    /\ m_events = <<>>
    /\ exit_status = <<>>
    /\ FirstIdle /\ RestIdle("main")

MainExits(status) ==
    /\ m_pc' = "exited"
    /\ exit_status' = <<status>>
    /\ UNCHANGED <<m_env, m_events>>
MainGoes(next) ==
    /\ m_pc' = next
    /\ UNCHANGED <<m_env, m_events, exit_status>>
MainElsewhere == FirstUnchanged /\ RestUnchanged("main")

\* the imports at the head of article_scraper.py
ImportModules ==
    /\ m_pc = "start"
    /\ IF m_env.annotations_deferred THEN MainGoes("imported") ELSE MainExits(UncaughtException)
    /\ MainElsewhere

\* parser.parse_args(): -c is required
ParseArgs ==
    /\ m_pc = "imported"
    /\ IF m_env.config_arg THEN MainGoes("parsed") ELSE MainExits(ArgparseError)
    /\ MainElsewhere

\* load_config: any exception is logged and ends the process with sys.exit(1)
LoadConfig ==
    /\ m_pc = "parsed"
    /\ IF m_env.config_file = "ok" THEN MainGoes("configured") ELSE MainExits(SysExit1)
    /\ MainElsewhere

\* ArticleScraper(config): WebScraper, AIProcessor (credential, client
\* library), ContentGenerator; what they raise is not caught
Construct ==
    /\ m_pc = "configured"
    /\ IF m_env.has_website /\ has_api_key(m_env) /\ m_env.client_library
       THEN MainGoes("constructed")
       ELSE MainExits(UncaughtException)
    /\ MainElsewhere

\* scrape_all_categories without categories: logged, {} returned, the summary
\* printed, main returns
NoCategories ==
    /\ m_pc = "constructed"
    /\ ~m_env.url_arg /\ m_env.categories = "none"
    /\ MainExits(NormalExit)
    /\ MainElsewhere

\* scrape_from_url, or scrape_all_categories with categories: the first fetch
StartScraping ==
    /\ m_pc = "constructed"
    /\ m_env.url_arg \/ m_env.categories = "some"
    /\ m_pc' = "scraping"
    /\ m_events' = Append(m_events, "fetch")
    /\ UNCHANGED <<m_env, exit_status>>
    /\ MainElsewhere

\* a further page fetch, or an LLM call on an article fetched
Scrape ==
    /\ m_pc = "scraping"
    /\ Len(m_events) < MaxEvents
    /\ \E e \in {"fetch", "llm"} : m_events' = Append(m_events, e)
    /\ UNCHANGED <<m_env, m_pc, exit_status>>
    /\ MainElsewhere

\* the summary is printed and main returns
Finish ==
    /\ m_pc = "scraping"
    /\ MainExits(NormalExit)
    /\ MainElsewhere

NextMain ==
    \/ ImportModules \/ ParseArgs \/ LoadConfig \/ Construct \/ NoCategories
    \/ StartScraping \/ Scrape \/ Finish

SpecMain == InitMain /\ [][NextMain]_vars

MissingCredential == ~m_env.config_api_key /\ ~m_env.env_api_key
MissingClientLibrary == ~m_env.client_library
UnreadableConfig == m_env.config_file # "ok"
EmptyCategoryList == ~m_env.url_arg /\ m_env.categories = "none"

\* C13 as stated: a run with a missing credential, a missing client library,
\* an empty category list or an unreadable config file makes no page fetch
\* and no LLM call, and exits with a non-zero status.
C13_AsStated ==
    (MissingCredential \/ MissingClientLibrary \/ EmptyCategoryList \/ UnreadableConfig) =>
        /\ m_events = <<>>
        /\ exit_status # <<>> => exit_status[1] # 0

\* C13 (amended): a run with a missing credential, a missing client library
\* or an unreadable config file makes no page fetch and no LLM call and exits
\* with a non-zero status; a run whose only failure is an empty category
\* list makes no page fetch and no LLM call either, but it is not raised:
\* the run exits with status 0.
C13_StartupFailures ==
    /\ (MissingCredential \/ MissingClientLibrary \/ UnreadableConfig) =>
        /\ m_events = <<>>
        /\ exit_status # <<>> => exit_status[1] # 0
        /\ m_pc \notin {"constructed", "scraping"}
    /\ EmptyCategoryList => m_events = <<>>
    /\ (EmptyCategoryList /\ m_pc = "exited" /\ m_env.annotations_deferred
            /\ m_env.config_arg /\ m_env.has_website
            /\ ~MissingCredential /\ ~MissingClientLibrary /\ ~UnreadableConfig) =>
        exit_status = <<0>>
    /\ m_pc = "exited" <=> exit_status # <<>>
    /\ m_pc \notin {"exited", "idle"} => ENABLED NextMain

\* the config was read and the credential is missing: the constructor raised
\* and the process ended with status 1 before any fetch
C13_Witness ==
    /\ m_pc = "exited" /\ exit_status = <<1>>
    /\ m_env.annotations_deferred /\ m_env.config_arg /\ m_env.config_file = "ok"
    /\ m_env.has_website /\ MissingCredential /\ m_env.client_library
    /\ m_events = <<>>

(***************************************************************************)
(* WebScraper.extract_article_links                                        *)
(***************************************************************************)
MaxPages == 2
PageDelay == 1

\* a link: its host ("" when the link is relative) and its path ("" for an
\* empty href)
Link(host, path) == [host |-> host, path |-> path]
NoHref == Link("", "")
BaseHost == "site"
\* urljoin(self.base_url, link)
urljoin(base, link) == Link(IF link.host = "" THEN base ELSE link.host, link.path)

\* an element the selector matched: its own href, and the href of the first
\* <a href> inside it (has_a tells whether there is one)
Element(href, has_a, a_href) == [href |-> href, has_a |-> has_a, a_href |-> a_href]
Anchor(link) == Element(link, FALSE, NoHref)
\* the listing pages: no match; two links; the same article linked relatively
\* and absolutely; a link inside the element, an element without any link, a
\* third article; an <a> with an empty href, an article of the first page
ListingPages ==
    {<<>>,
     <<Anchor(Link("", "/a")), Anchor(Link("", "/b"))>>,
     <<Anchor(Link("site", "/a")), Anchor(Link("", "/a")), Anchor(Link("other", "/a"))>>,
     <<Element(NoHref, TRUE, Link("", "/b")), Element(NoHref, FALSE, NoHref),
       Anchor(Link("", "/c"))>>,
     <<Element(NoHref, TRUE, NoHref), Anchor(Link("", "/a"))>>}

\* link = element.get('href'); if not link and element.find('a', href=True): ...
element_link(element) ==
    IF element.href = NoHref /\ element.has_a THEN element.a_href ELSE element.href

\* the mutant: the link is appended without looking for it in the list
append_link_always(as, article_url) == Append(as, article_url)

\* if article_url not in articles: articles.append(article_url)
append_link(as, article_url) ==
    IF \E i \in 1..Len(as) : as[i] = article_url THEN as ELSE Append(as, article_url)

RECURSIVE page_links(_, _)
\* for element in soup.select(article_selector): ...
page_links(elements, as) ==
    IF elements = <<>> THEN as
    ELSE LET link == element_link(Head(elements)) IN
         page_links(Tail(elements),
                    IF link # NoHref THEN append_link(as, urljoin(BaseHost, link)) ELSE as)

\* page_url: the category url, with "?page=<page>" (0: without it)
page_url(page, max_pages) == [url |-> "category", page |-> IF max_pages > 1 THEN page ELSE 0]

InitLinks ==
    /\ ln_max_pages \in 0..MaxPages
    /\ ln_site \in [1..MaxPages -> ListingPages]
    /\ ln_page = 1
    /\ ln_fetches = <<>>
    /\ ln_articles = <<>>
    /\ ln_sleeps = <<>>
    /\ ln_pc = "loop"
    /\ FirstIdle /\ RestIdle("links")

LinksElsewhere == FirstUnchanged /\ RestUnchanged("links")

\* one iteration on a page that fetch_page returns
ListingPageFetched ==
    /\ ln_pc = "loop" /\ ln_page <= ln_max_pages
    /\ ln_fetches' = Append(ln_fetches, [url |-> page_url(ln_page, ln_max_pages), ok |-> TRUE])
    /\ ln_articles' = page_links(ln_site[ln_page], ln_articles)
    /\ ln_sleeps' = IF ln_page < ln_max_pages THEN Append(ln_sleeps, PageDelay) ELSE ln_sleeps
    /\ ln_page' = ln_page + 1
    /\ UNCHANGED <<ln_site, ln_max_pages, ln_pc>>
    /\ LinksElsewhere

\* fetch_page returns None: break, return articles
ListingPageFails ==
    /\ ln_pc = "loop" /\ ln_page <= ln_max_pages
    /\ ln_fetches' = Append(ln_fetches, [url |-> page_url(ln_page, ln_max_pages), ok |-> FALSE])
    /\ ln_pc' = "returned"
    /\ UNCHANGED <<ln_site, ln_max_pages, ln_page, ln_articles, ln_sleeps>>
    /\ LinksElsewhere

\* range(1, max_pages + 1) is exhausted: return articles
LinksReturn ==
    /\ ln_pc = "loop" /\ ln_page > ln_max_pages
    /\ ln_pc' = "returned"
    /\ UNCHANGED <<ln_site, ln_max_pages, ln_page, ln_fetches, ln_articles, ln_sleeps>>
    /\ LinksElsewhere

NextLinks == ListingPageFetched \/ ListingPageFails \/ LinksReturn

SpecLinks == InitLinks /\ [][NextLinks]_vars

\* the pages fetched with success, and the urls their elements link to, in
\* page order and then document order, duplicates included
FetchedPages == {p \in 1..Len(ln_fetches) : ln_fetches[p].ok}
LinkOf(element) ==
    IF element.href # NoHref THEN element.href
    ELSE IF element.has_a THEN element.a_href ELSE NoHref
Resolved(link) == IF link.host = "" THEN Link(BaseHost, link.path) ELSE link
Occurrences ==
    UNION {{<<p, e>> : e \in {e \in 1..Len(ln_site[p]) : LinkOf(ln_site[p][e]) # NoHref}} :
           p \in FetchedPages}
UrlAt(o) == Resolved(LinkOf(ln_site[o[1]][o[2]]))
Before(o1, o2) == o1[1] < o2[1] \/ (o1[1] = o2[1] /\ o1[2] < o2[2])
FirstOccurrence(u) ==
    CHOOSE o \in Occurrences : UrlAt(o) = u /\ \A q \in Occurrences : UrlAt(q) = u => ~Before(q, o)

\* C18: the pages are fetched in the order 1, 2, ..., at most max_pages of
\* them, each after the success of the one before, with the page number in
\* the url exactly when max_pages > 1; one sleep of 1 second lies between two
\* consecutive fetches and there is no other; the list returned holds every
\* url linked from the pages fetched with success, resolved, once, in the
\* order of first occurrence, and nothing else; a failed fetch ends the loop
\* and keeps the links of the pages before it.
C18_Links ==
    /\ Len(ln_fetches) <= ln_max_pages
    /\ \A p \in 1..Len(ln_fetches) :
        /\ ln_fetches[p].url.page = (IF ln_max_pages > 1 THEN p ELSE 0)
        /\ p < Len(ln_fetches) => ln_fetches[p].ok
    /\ \A s \in 1..Len(ln_sleeps) : ln_sleeps[s] = 1
    /\ ln_pc = "returned" =>
        /\ Len(ln_sleeps) = (IF ln_fetches = <<>> THEN 0 ELSE Len(ln_fetches) - 1)
        /\ Len(ln_fetches) < ln_max_pages => ~ln_fetches[Len(ln_fetches)].ok
        /\ \A i, j \in 1..Len(ln_articles) : i # j => ln_articles[i] # ln_articles[j]
        /\ {ln_articles[i] : i \in 1..Len(ln_articles)} = {UrlAt(o) : o \in Occurrences}
        /\ \A i, j \in 1..Len(ln_articles) :
            i < j => Before(FirstOccurrence(ln_articles[i]), FirstOccurrence(ln_articles[j]))

\* both pages were fetched; /a, linked on both, relatively and absolutely, is
\* in the list once; one sleep was made, between the two fetches
C18_Witness ==
    /\ ln_pc = "returned"
    /\ ln_max_pages = 2 /\ Len(ln_fetches) = 2 /\ ln_fetches[2].ok
    /\ ln_site[1] = <<Anchor(Link("", "/a")), Anchor(Link("", "/b"))>>
    /\ ln_articles = <<Link("site", "/a"), Link("site", "/b"), Link("other", "/a")>>
    /\ ln_sleeps = <<1>>

(***************************************************************************)
(* WebScraper.extract_article_content, and selectors that match nothing    *)
(***************************************************************************)
\* "无标题"
NoTitle == <<Run("zh", 3)>>
\* select_one: None, or the element, which is its strings and its <script>
\* and <style> descendants in document order
NoMatch == <<>>
Node(tag, s) == [tag |-> tag, text |-> s]
Matched(nodes) == <<nodes>>
ParagraphBreak == <<Run("nl", 2)>>

RECURSIVE get_text(_, _)
\* element.get_text(separator, strip=True): the strings stripped, the empty
\* ones dropped, the others joined
get_text(nodes, separator) ==
    IF nodes = <<>> THEN <<>>
    ELSE LET s == Strip(Head(nodes).text)
             rest == get_text(Tail(nodes), separator)
         IN  IF s = <<>> THEN rest
             ELSE IF rest = <<>> THEN s
             ELSE Norm(s \o separator \o rest)

\* for script in content_element(['script', 'style']): script.decompose()
decompose_scripts(nodes) == SelectSeq(nodes, LAMBDA n : n.tag = "text")

\* what an AttributeError on None leaves in place of the text
Raises == <<Run("raise", 0)>>

\* the mutant: get_text is called on what select_one returned, None included
text_of_unchecked(match, default) ==
    IF match = NoMatch THEN Raises ELSE get_text(match[1], <<>>)

\* element.get_text(strip=True) if element else default
text_of(match, default) ==
    IF match = NoMatch THEN default ELSE get_text(match[1], <<>>)

\* if content_element: ... else: content = ""
content_of(match) ==
    IF match = NoMatch THEN <<>> ELSE get_text(decompose_scripts(match[1]), ParagraphBreak)

\* author = ""; if author_selector: ...
optional_text(selector, match) ==
    IF selector \in {"None", ""} THEN <<>> ELSE text_of(match, <<>>)

extract_article_content(page, selectors) ==
    [url |-> "article",
     title |-> text_of(page.title, NoTitle),
     content |-> content_of(page.content),
     author |-> optional_text(selectors.author, page.author),
     date |-> optional_text(selectors.date, page.date)]

EmptyDict == [empty |-> TRUE]

TitleElements ==
    {NoMatch, Matched(<<>>),
     Matched(<<Node("text", <<Run("nl", 1), Run("lat", 30), Run("ws", 2)>>)>>)}
ContentElements ==
    {NoMatch, Matched(<<Node("script", <<Run("lat", 40)>>)>>),
     Matched(<<Node("text", <<Run("ws", 4), Run("lat", 400), Run("nl", 1)>>),
               Node("style", <<Run("lat", 9)>>),
               Node("text", <<Run("nl", 1)>>),
               Node("text", <<Run("zh", 50)>>)>>)}
BylineElements == {NoMatch, Matched(<<Node("text", <<Run("lat", 8), Run("ws", 1)>>)>>)}
OptionalSelectors == {"None", "", "given"}
ArticlePages ==
    [title : TitleElements, content : ContentElements,
     author : BylineElements, date : BylineElements]

InitContent ==
    /\ ec_page \in ArticlePages
    /\ ec_selectors \in [author : OptionalSelectors, date : OptionalSelectors]
    /\ article_data = <<>>
    /\ ec_pc = "called"
    /\ FirstIdle /\ RestIdle("content")

ContentElsewhere == FirstUnchanged /\ RestUnchanged("content")

\* fetch_page returns None: return {}
ArticlePageFails ==
    /\ ec_pc = "called"
    /\ article_data' = <<EmptyDict>>
    /\ ec_pc' = "returned"
    /\ UNCHANGED <<ec_page, ec_selectors>>
    /\ ContentElsewhere

\* fetch_page returns the page: the four fields are read from it
ArticlePageExtracted ==
    /\ ec_pc = "called"
    /\ LET data == extract_article_content(ec_page, ec_selectors) IN
        IF Raises \in {data.title, data.content, data.author, data.date}
        THEN article_data' = <<>> /\ ec_pc' = "raised"
        ELSE article_data' = <<data>> /\ ec_pc' = "returned"
    /\ UNCHANGED <<ec_page, ec_selectors>>
    /\ ContentElsewhere

NextContent == ArticlePageFails \/ ArticlePageExtracted

\* either method is called, on any page
InitExtract == InitLinks \/ InitContent

NextExtract == NextLinks \/ NextContent

SpecExtract == InitExtract /\ [][NextExtract]_vars

Fetched == ec_pc = "returned" /\ article_data # <<EmptyDict>>
Misses(selector, match) == selector \in {"None", ""} \/ match = NoMatch

\* C14: neither method raises; extract_article_links returns [] when no page
\* it fetched has an element for the link selector; on a fetched page
\* extract_article_content returns the title "无标题" when the title selector
\* matches nothing, the content "" when the content selector matches nothing,
\* and the author and the date "" when their selector is None or matches
\* nothing.
C14_SelectorMisses ==
    /\ ln_pc # "raised" /\ ec_pc # "raised"
    /\ (ln_pc = "returned" /\ \A p \in FetchedPages : ln_site[p] = <<>>)
        => ln_articles = <<>>
    /\ Fetched =>
        /\ ec_page.title = NoMatch => article_data[1].title = NoTitle
        /\ ec_page.content = NoMatch => article_data[1].content = <<>>
        /\ Misses(ec_selectors.author, ec_page.author) => article_data[1].author = <<>>
        /\ Misses(ec_selectors.date, ec_page.date) => article_data[1].date = <<>>

\* a fetched page where the title and content selectors match nothing, no
\* author selector was given and the date selector matches nothing
C14_Witness ==
    /\ Fetched
    /\ ec_page.title = NoMatch /\ ec_page.content = NoMatch
    /\ ec_selectors.author = "None"
    /\ ec_selectors.date = "given" /\ ec_page.date = NoMatch
    /\ article_data[1] = [url |-> "article", title |-> NoTitle, content |-> <<>>,
                          author |-> <<>>, date |-> <<>>]

\* two listing pages fetched, the link selector matching nothing on either
NoLinksExample ==
    /\ ln_pc = "returned" /\ Len(ln_fetches) = 2 /\ ln_fetches[2].ok
    /\ ln_site[1] = <<>> /\ ln_site[2] = <<>> /\ ln_articles = <<>>

\* a page with everything on it: the texts are stripped, the script and the
\* style are left out, the paragraphs are joined by blank lines
ExtractExample ==
    Fetched /\ ec_selectors.author = "given"
    /\ article_data[1].title = <<Run("lat", 30)>>
    /\ article_data[1].content = <<Run("lat", 400), Run("nl", 2), Run("zh", 50)>>
    /\ article_data[1].author = <<Run("lat", 8)>>

(***************************************************************************)
(* Two emitters saving into one output directory                           *)
(*                                                                         *)
(* Each emitter is a process that calls save_article once. The call reads  *)
(* the directory in generate_markdown (_get_next_id) and writes its file   *)
(* afterwards; nothing in the code holds the directory between the two, so *)
(* the steps of the two processes interleave freely. A scan and a write    *)
(* are each taken as one step.                                             *)
(***************************************************************************)
Emitters == {1, 2}

\* the mutant: the id is taken from the directory as it is when the file is
\* written
article_id_at_write(scanned, d) == _get_next_id(d)

\* article_id, from the scan to the write: a local of generate_markdown
article_id_kept(scanned, d) == scanned

RaceArticles ==
    {[e \in Emitters |-> [url |-> e, title_zh |-> f[e], title |-> Unset, body_id |-> 0]] :
        f \in [Emitters -> SaveTitles]}

InitRace ==
    /\ rc_dir \in SaveDirectories
    /\ rc_articles \in RaceArticles
    /\ rc_pc = [e \in Emitters |-> "scan"]
    /\ rc_id = [e \in Emitters |-> 0]
    /\ rc_written = [e \in Emitters |-> <<>>]
    /\ rc_trace = <<>>
    /\ FirstIdle /\ RestIdle("race")

RaceElsewhere == FirstUnchanged /\ RestUnchanged("race")

\* if article_id is None: article_id = self._get_next_id()
EmitterScans(e) ==
    /\ rc_pc[e] = "scan"
    /\ rc_id' = [rc_id EXCEPT ![e] = _get_next_id(rc_dir)]
    /\ rc_pc' = [rc_pc EXCEPT ![e] = "write"]
    /\ rc_trace' = Append(rc_trace, [emitter |-> e, step |-> "scan"])
    /\ UNCHANGED <<rc_dir, rc_articles, rc_written>>
    /\ RaceElsewhere

\* with open(filepath, 'w', encoding='utf-8') as f: f.write(markdown)
EmitterWrites(e) ==
    /\ rc_pc[e] = "write"
    /\ LET markdown == generate_markdown(rc_articles[e], article_id_kept(rc_id[e], rc_dir)) IN
        /\ rc_dir' = [rc_dir EXCEPT !.files[save_filename(rc_articles[e], StartDay)] =
                                        File(TRUE, markdown)]
        /\ rc_written' = [rc_written EXCEPT ![e] = markdown]
    /\ rc_pc' = [rc_pc EXCEPT ![e] = "done"]
    /\ rc_trace' = Append(rc_trace, [emitter |-> e, step |-> "write"])
    /\ UNCHANGED <<rc_articles, rc_id>>
    /\ RaceElsewhere

NextRace == \E e \in Emitters : EmitterScans(e) \/ EmitterWrites(e)

SpecRace == InitRace /\ [][NextRace]_vars

\* both emitters have scanned, and neither had written when the later of the
\* two scans was made
BothScannedFirst ==
    /\ \A e \in Emitters : rc_pc[e] # "scan"
    /\ \A i, j \in 1..Len(rc_trace) :
        (rc_trace[i].step = "write" /\ rc_trace[j].step = "scan") => j < i
RacePath(e) == save_filename(rc_articles[e], StartDay)

\* C20: nothing keeps the two emitters from both scanning before either
\* writes (the second scan is enabled right after the first); whenever they
\* have done so they hold the same id, and the two documents they write,
\* which differ, both carry it in their metadata; when their paths differ,
\* both documents are in the directory in the end.
C20_IdRace ==
    /\ (\E e \in Emitters : rc_pc[e] = "write") =>
        \A e \in Emitters : rc_pc[e] = "scan" => ENABLED EmitterScans(e)
    /\ BothScannedFirst =>
        /\ rc_id[1] = rc_id[2]
        /\ (rc_pc[1] = "done" /\ rc_pc[2] = "done") =>
            /\ rc_written[1] # rc_written[2]
            /\ MetaIds(rc_written[1]) = {rc_id[1]}
            /\ MetaIds(rc_written[2]) = {rc_id[1]}
            /\ RacePath(1) # RacePath(2) =>
                \A e \in Emitters : rc_dir.files[RacePath(e)] = File(TRUE, rc_written[e])

\* the directory held a document with id 7; both emitters scanned, then both
\* wrote: two files, two different documents, both with id 8
C20_Witness ==
    /\ BothScannedFirst
    /\ rc_pc[1] = "done" /\ rc_pc[2] = "done"
    /\ RacePath(1) # RacePath(2)
    /\ rc_dir.files[RacePath(1)].lines # rc_dir.files[RacePath(2)].lines
    /\ MetaIds(rc_dir.files[RacePath(1)].lines) = {8}
    /\ MetaIds(rc_dir.files[RacePath(2)].lines) = {8}

\* one emitter after the other: the second scan sees the first one's file and
\* the ids differ
SequentialExample ==
    /\ rc_pc[1] = "done" /\ rc_pc[2] = "done"
    /\ rc_trace[2] = [emitter |-> 1, step |-> "write"]
    /\ rc_trace[3] = [emitter |-> 2, step |-> "scan"]
    /\ rc_id[1] = 1 /\ rc_id[2] = 2

(***************************************************************************)
(* One emitter: a sequence of save_article calls with automatic ids        *)
(*                                                                         *)
(* The calls are those of one save_articles batch (any other sequential    *)
(* caller that goes on after a failed call does the same); the batches     *)
(* here are long enough for a call to follow a failed call that follows a  *)
(* successful one.                                                         *)
(***************************************************************************)
MaxCalls == 3

SequenceBatches ==
    {[i \in 1..MaxCalls |-> [url |-> i, title_zh |-> f[i], title |-> Unset, body_id |-> 0]] :
        f \in [1..MaxCalls -> SaveTitles]}

InitSequence ==
    /\ sv_dir \in SaveDirectories
    /\ sv_articles \in SequenceBatches
    /\ sv_now = StartDay
    /\ filepaths = <<>>
    /\ sv_log = <<>>
    /\ sv_pc = "loop"
    /\ FirstIdle /\ RestIdle("save")

SpecSequence == InitSequence /\ [][NextSave]_vars

\* the ids in the metadata of the readable .md documents of a directory
IdsPresent(d) ==
    UNION {MetaIds(d.files[f].lines) :
            f \in {g \in DOMAIN d.files :
                     d.files[g].present /\ d.files[g].readable /\ endswith_md(g)}}
\* a call has just returned: the log has one more entry, of a saved article
JustSaved ==
    /\ Len(sv_log') = Len(sv_log) + 1
    /\ sv_log'[Len(sv_log')].outcome = "saved"
\* the id a call writes is above every id the directory held when the call
\* scanned it, and it is the id of the document in the file written
IdAbovePresent ==
    JustSaved =>
        LET saved == sv_log'[Len(sv_log')] IN
        /\ \A n \in IdsPresent(sv_dir) : saved.id > n
        /\ MetaIds(sv_dir'.files[saved.filepath].lines) = {saved.id}
\* the ids of the calls that succeeded, in call order, are strictly increasing
IdsIncrease == \A i, j \in Saved : i < j => sv_log[i].id < sv_log[j].id
\* no two documents of the directory carry the same id
NoIdTwice ==
    \A f, g \in DOMAIN sv_dir.files :
        (f # g /\ sv_dir.files[f].present /\ sv_dir.files[g].present)
            => MetaIds(sv_dir.files[f].lines) \cap MetaIds(sv_dir.files[g].lines) = {}

\* C21: in a sequence of save_article calls by one emitter, failed calls and
\* overwriting calls included, every id written is strictly greater than
\* every id present in the directory when it was assigned; the ids assigned
\* in the batch are strictly increasing; and no two documents of the
\* directory carry the same id.
C21_SequentialIds == [][IdAbovePresent]_vars /\ [](IdsIncrease /\ NoIdTwice)

\* what holds of the code: each id written is above the ids present at its
\* scan, and no two documents of the directory carry the same id
IdsAbovePresent == [][IdAbovePresent]_vars /\ []NoIdTwice

\* a call wrote id 8 into a new file, the next call opened the same file and
\* failed, and the call after it wrote id 8 again
RepeatedIdExample ==
    /\ Len(sv_log) = 3
    /\ sv_log[1].outcome = "saved" /\ sv_log[1].id = 8
    /\ sv_log[2].outcome = "raised" /\ sv_log[2].filepath = sv_log[1].filepath
    /\ sv_log[3].outcome = "saved" /\ sv_log[3].id = 8

\* the ids of a run without a failed call: 8, 9, 10
IncreasingExample ==
    /\ Len(sv_log) = 3 /\ Saved = 1..3
    /\ sv_log[1].id = 8 /\ sv_log[2].id = 9 /\ sv_log[3].id = 10
====
